---- MODULE Spec2Model ----
(***************************************************************************)
(* check-shipment: the crawl frontier and the validation engine.           *)
(*                                                                         *)
(* URLs are strings, handled character by character the way the WHATWG     *)
(* URL parser and the helpers of utils/url.ts handle them.  The crawler    *)
(* (crawler.ts) is a state machine: start-URL validation, optional sitemap *)
(* seeding, the page handlers of the browser crawl, the windowed batch     *)
(* validation, and the report.                                             *)
(***************************************************************************)
EXTENDS Integers, Sequences, FiniteSets, TLC

\* ------------------------------------------------------------------------
\* Strings
\* ------------------------------------------------------------------------

CharAt(s, i) == SubSeq(s, i, i)

StartsWith(s, p) == Len(s) >= Len(p) /\ SubSeq(s, 1, Len(p)) = p

EndsWith(s, p) == Len(s) >= Len(p) /\ SubSeq(s, Len(s) - Len(p) + 1, Len(s)) = p

\* String.prototype.includes
Includes(s, p) == \E i \in 1..(Len(s) - Len(p) + 1) : SubSeq(s, i, i + Len(p) - 1) = p

\* index of the first character of s, at or after i, that is in chars;
\* Len(s) + 1 when there is none
RECURSIVE FindFirst(_, _, _)
FindFirst(s, i, chars) ==
    IF i > Len(s) THEN Len(s) + 1
    ELSE IF CharAt(s, i) \in chars THEN i
    ELSE FindFirst(s, i + 1, chars)

Uppers == "ABCDEFGHIJKLMNOPQRSTUVWXYZ"

Lowers == "abcdefghijklmnopqrstuvwxyz"

LowerChar(c) ==
    IF \E i \in 1..Len(Uppers) : CharAt(Uppers, i) = c
    THEN CharAt(Lowers, CHOOSE i \in 1..Len(Uppers) : CharAt(Uppers, i) = c)
    ELSE c

\* String.prototype.toLowerCase
RECURSIVE ToLowerCase(_)
ToLowerCase(s) ==
    IF s = "" THEN ""
    ELSE IF Len(s) = 1 THEN LowerChar(s)
    ELSE ToLowerCase(SubSeq(s, 1, Len(s) \div 2))
            \o ToLowerCase(SubSeq(s, Len(s) \div 2 + 1, Len(s)))

\* ------------------------------------------------------------------------
\* new URL(url): protocol, hostname, pathname, search, hash
\* ------------------------------------------------------------------------

\* the one element of a singleton set: The({F(x) : x \in {e}}) is F(e) with
\* e evaluated once
The(S) == CHOOSE x \in S : TRUE

\* the scheme is matched without regard to case
Protocol(url) ==
    IF Len(url) >= 8 /\ ToLowerCase(SubSeq(url, 1, 8)) = "https://" THEN "https:"
    ELSE IF Len(url) >= 7 /\ ToLowerCase(SubSeq(url, 1, 7)) = "http://" THEN "http:"
    ELSE ""

\* the components of url, whose authority ends before e, whose path ends
\* before q and whose query ends before h
UrlParts(url, proto, e, q, h) ==
    IF proto = "" \/ e = Len(proto) + 3 \/ Includes(SubSeq(url, Len(proto) + 3, e - 1), " ")
    THEN [ok |-> FALSE, protocol |-> "", hostname |-> "", pathname |-> "",
          search |-> "", hash |-> ""]
    ELSE [ok |-> TRUE, protocol |-> proto,
          hostname |-> ToLowerCase(SubSeq(url, Len(proto) + 3, e - 1)),
          pathname |-> IF q = e THEN "/" ELSE SubSeq(url, e, q - 1),
          search |-> IF h - q <= 1 THEN "" ELSE SubSeq(url, q, h - 1),
          hash |-> IF Len(url) - h <= 0 THEN "" ELSE SubSeq(url, h, Len(url))]

ParseQuery(url, proto, e, q) ==
    The({UrlParts(url, proto, e, q, h) : h \in {FindFirst(url, q, {"#"})}})

ParsePath(url, proto, e) ==
    The({ParseQuery(url, proto, e, q) : q \in {FindFirst(url, e, {"?", "#"})}})

ParseAuthority(url, proto) ==
    The({ParsePath(url, proto, e) : e \in {FindFirst(url, Len(proto) + 3, {"/", "?", "#"})}})

\* the parsed URL; ok = FALSE when the constructor throws
ParseUrl(url) == The({ParseAuthority(url, proto) : proto \in {Protocol(url)}})

\* URL.prototype.toString
UrlToString(u) == u.protocol \o "//" \o u.hostname \o u.pathname \o u.search \o u.hash

\* ------------------------------------------------------------------------
\* utils/url.ts
\* ------------------------------------------------------------------------

\* lines 10-22: search and hash cleared, one trailing slash of a non-root
\* path removed
NormalizeParsed(url, urlObj) ==
    IF ~urlObj.ok THEN url
    ELSE UrlToString([urlObj EXCEPT
            !.search = "", !.hash = "",
            !.pathname = IF Len(@) > 1 /\ EndsWith(@, "/") THEN SubSeq(@, 1, Len(@) - 1) ELSE @])

normalizeUrl(url) == The({NormalizeParsed(url, urlObj) : urlObj \in {ParseUrl(url)}})

BaseDomainOf(urlObj) ==
    IF ~urlObj.ok THEN ""
    ELSE IF StartsWith(urlObj.hostname, "www.") THEN SubSeq(urlObj.hostname, 5, Len(urlObj.hostname))
    ELSE urlObj.hostname

getBaseDomain(url) == The({BaseDomainOf(urlObj) : urlObj \in {ParseUrl(url)}})

isSameDomain(url1, url2) ==
    \E domain1 \in {getBaseDomain(url1)} : domain1 = getBaseDomain(url2) /\ domain1 # ""

isValidUrl(url) == ParseUrl(url).ok

\* a match that is not anchored at the end of s
RECURSIVE GlobTestPrefix(_, _)
GlobTestPrefix(pattern, s) ==
    IF pattern = "" THEN TRUE
    ELSE IF CharAt(pattern, 1) = "*"
         THEN GlobTestPrefix(Tail(pattern), s) \/ (s # "" /\ GlobTestPrefix(pattern, Tail(s)))
         ELSE s # "" /\ CharAt(pattern, 1) = CharAt(s, 1) /\ GlobTestPrefix(Tail(pattern), Tail(s))

\* RegExp('^' + pattern + '$').test(s), the pattern's * turned into .* and
\* every other character matched literally
RECURSIVE GlobTest(_, _)
GlobTest(pattern, s) ==
    IF pattern = "" THEN s = ""
    ELSE IF CharAt(pattern, 1) = "*"
         THEN GlobTest(Tail(pattern), s) \/ (s # "" /\ GlobTest(pattern, Tail(s)))
         ELSE s # "" /\ CharAt(pattern, 1) = CharAt(s, 1) /\ GlobTest(Tail(pattern), Tail(s))

matchesExcludePattern(url, patterns) ==
    /\ Len(patterns) > 0
    /\ \E urlObj \in {ParseUrl(url)} :
          /\ urlObj.ok
          /\ \E i \in 1..Len(patterns) :
                GlobTest(patterns[i], urlObj.pathname) \/ GlobTest(patterns[i], url)

nonHtmlExtensions ==
    {".pdf", ".jpg", ".jpeg", ".png", ".gif", ".svg", ".webp",
     ".mp4", ".webm", ".ogg", ".mp3", ".wav",
     ".zip", ".tar", ".gz", ".rar",
     ".doc", ".docx", ".xls", ".xlsx", ".ppt", ".pptx",
     ".css", ".js", ".json", ".xml"}

isNonHtmlContent(url) ==
    \E urlObj \in {ParseUrl(url)} :
        /\ urlObj.ok
        /\ \E pathname \in {ToLowerCase(urlObj.pathname)} :
              \E ext \in nonHtmlExtensions : EndsWith(pathname, ext)

\* ------------------------------------------------------------------------
\* Bounds of the model and constants of the program
\* ------------------------------------------------------------------------

\* retryCount is 0 or MaxRetryCount (validateConfig allows 0..10)
MaxRetryCount == 1

\* concurrency is unset (0), 1 or MaxConcurrency
MaxConcurrency == 2

\* the clock advances at most MaxTicks times, TickMs at a time
MaxTicks == 1

\* retries of a failed page request by the browser crawler
MaxRequestRetries == 1

cacheTTL == 60000

\* one step of the clock outlasts a cache entry
TickMs == cacheTTL

DefaultConcurrency == 3

\* ------------------------------------------------------------------------
\* The sites a run is pointed at: start URL, pages, links, responses
\* ------------------------------------------------------------------------

Sites == {"scenario", "general", "sitemap"}

StartUrl(site) ==
    CASE site = "scenario" -> "https://x.test/"
      [] site = "general"  -> "https://x.test/docs/"
      [] site = "sitemap"  -> "https://x.test/"

UseSitemap(site) == site = "sitemap"

\* the locations listed by the site's sitemap document
SitemapDoc(site) ==
    IF site = "sitemap"
    THEN <<"https://x.test/", "https://x.test/a/", "https://x.test/a",
           "https://x.test/f.pdf", "https://x.test/admin/x", "https://ext.test/p">>
    ELSE <<>>

\* the anchors' href attributes of a rendered page, as the browser gives them
Hrefs(site, page) ==
    CASE site = "scenario" /\ page = "https://x.test/" ->
            <<"https://x.test/a", "https://x.test/missing">>
      [] site = "general" /\ page = "https://x.test/docs" ->
            <<"https://x.test/a/?q=1#top", "https://x.test/f.pdf", "https://ext.test/p">>
      [] site = "general" /\ page = "https://x.test/a" ->
            <<"https://x.test/a", "https://x.test/docs/", "https://x.test/f.pdf">>
      [] OTHER -> <<>>

Http(status) == [kind |-> "http", status |-> status, name |-> "", message |-> ""]

Throw(name, message) == [kind |-> "throw", status |-> 0, name |-> name, message |-> message]

\* what an existence check (HEAD request) can come back with
Responses ==
    {Http(200), Http(404), Throw("AbortError", "This operation was aborted")}

HeadResponses(site, url) ==
    IF site = "scenario"
    THEN IF url = "https://x.test/missing" THEN {Http(404)} ELSE {Http(200)}
    ELSE IF url = "https://x.test/admin/x" THEN {Http(404)}
    ELSE Responses

\* a rendered page, as far as the page checks look at it: the status of
\* the response, whether the soft-404 phrases fire, the metadata errors
Page(status, soft404, seo) == [status |-> status, soft404 |-> soft404, seo |-> seo, warn |-> <<>>]

\* the page with metadata that draws the given warnings
Warned(page, warnings) == [page EXCEPT !.warn = warnings]

\* what rendering a URL can show
Pages(site, url) ==
    IF site = "scenario"
    THEN IF url = "https://x.test/missing" THEN {Page(404, FALSE, <<>>)} ELSE {Page(200, FALSE, <<>>)}
    ELSE IF url = "https://x.test/a"
         THEN {Page(200, FALSE, <<>>), Page(200, FALSE, <<"Missing Canonical URL">>),
               Warned(Page(200, FALSE, <<>>), <<"Short Title">>)}
         ELSE {Page(200, FALSE, <<>>)}

\* whether navigation and the page handler's waits can fail on this site
Unreliable(site) == site # "scenario"

\* ------------------------------------------------------------------------
\* The URLs of a run, and utils/url.ts tabulated over them
\* ------------------------------------------------------------------------

SeqToSet(s) == {s[i] : i \in 1..Len(s)}

PatternLists == {<<>>, <<"/admin/*">>, <<"/docs/*">>, <<"/p">>}

\* URLs and source pages handed to addDiscoveredLink on its own: forms of
\* one page that differ in host casing, trailing slash and query, and two
\* other pages
AddUrls ==
    {"https://x.test/a", "https://x.test/a/", "https://X.test/a?q=1", "https://x.test/docs/",
     "https://x.test/b"}

AddSources == {"https://x.test/", "https://x.test/docs"}

RawUrls ==
    UNION {{StartUrl(site)} \cup SeqToSet(SitemapDoc(site)) : site \in Sites}
    \cup AddUrls
    \cup UNION {SeqToSet(Hrefs(site, page)) : site \in Sites,
                page \in {"https://x.test/", "https://x.test/docs", "https://x.test/a"}}

Close(S) == S \cup {normalizeUrl(u) : u \in S}

\* closed under normalizeUrl, which the crawler applies up to four times over
Urls == Close(Close(Close(Close(RawUrls))))

Normalized == [u \in Urls |-> normalizeUrl(u)]

NonHtml == {u \in Urls : isNonHtmlContent(u)}

Excluded == [patterns \in PatternLists |-> {u \in Urls : matchesExcludePattern(u, patterns)}]

\* a domain test that every URL passes
SameDomainAll == Urls \X Urls

SameDomain == {pair \in Urls \X Urls : isSameDomain(pair[1], pair[2])}

\* ------------------------------------------------------------------------
\* State
\* ------------------------------------------------------------------------

VARIABLES
    cfg,              \* CheckShipmentConfig, and the site it points at
    pc,               \* position of crawl()
    now,              \* Date.now(), in ms since the run was created
    responseCache,    \* LinkChecker.responseCache
    calls,            \* validateUrl calls in flight, by URL
    log,              \* validateUrl calls that have returned (history)
    discoveredLinks,  \* WebsiteCrawler.discoveredLinks: an insertion-ordered Map
    crawledUrls,      \* WebsiteCrawler.crawledUrls
    stats,            \* WebsiteCrawler.stats
    requests,         \* the browser crawler's request queue, by request URL
    rendered,         \* navigations of the browser crawler so far (history)
    batch,            \* validateRemainingLinks: linksToValidate and the loop index
    report,           \* the ReportData crawl() returned
    sitemapFetched,   \* whether the sitemap was asked for (history)
    probe             \* a helper exercised on its own: its inputs and its result

vars == <<cfg, pc, now, responseCache, calls, log, discoveredLinks, crawledUrls,
          stats, requests, rendered, batch, report, sitemapFetched, probe>>

NoError == [type |-> "", url |-> "", statusCode |-> 0, sourcePages |-> {}]

NoReport == [returned |-> FALSE, stats |-> <<>>, errors |-> <<>>]

EmptyMap == [order |-> <<>>, info |-> <<>>]

MapHas(m, k) == k \in SeqToSet(m.order)

MapGet(m, k) == m.info[CHOOSE i \in 1..Len(m.order) : m.order[i] = k]

\* Map.prototype.set: a new key goes last, an existing key keeps its place
MapSet(m, k, v) ==
    IF MapHas(m, k)
    THEN [m EXCEPT !.info = [i \in 1..Len(m.order) |-> IF m.order[i] = k THEN v ELSE m.info[i]]]
    ELSE [order |-> Append(m.order, k), info |-> Append(m.info, v)]

batchSize == IF cfg.concurrency = 0 THEN DefaultConcurrency ELSE cfg.concurrency

NoCounts == [checked |-> 0, passed |-> 0, failed |-> 0]

InitStats ==
    [pagesCrawled |-> 0, linksChecked |-> 0, brokenLinks |-> 0, skippedLinks |-> 0,
     seoChecked |-> 0, seoErrors |-> 0,
     canonicalUrl |-> NoCounts, metaDescription |-> NoCounts, pageTitle |-> NoCounts,
     openGraphTags |-> NoCounts,
     startTime |-> 0, endTime |-> -1]

NoProbe == [fn |-> "none"]

\* the configurations of a run; exclusion patterns are drawn where the site
\* has a URL they can match: a page of the sitemap, the start URL itself, or
\* a link to another domain
Configs ==
    {c \in [site : Sites, concurrency : {0, 1, MaxConcurrency},
            retryCount : {0, MaxRetryCount}, excludePatterns : {<<>>, <<"/admin/*">>}] :
        c.excludePatterns # <<>> => c.site = "sitemap"}
    \cup {[site |-> "general", concurrency |-> 1, retryCount |-> 0, excludePatterns |-> p] :
             p \in {<<"/docs/*">>, <<"/p">>}}

Init ==
    /\ cfg \in Configs
    /\ pc = "init"
    /\ now = 0
    /\ responseCache = <<>>
    /\ calls = <<>>
    /\ log = {}
    /\ discoveredLinks = EmptyMap
    /\ crawledUrls = {}
    /\ stats = InitStats
    /\ requests = <<>>
    /\ rendered = 0
    /\ batch = [list |-> <<>>, i |-> 1]
    /\ report = NoReport
    /\ sitemapFetched = FALSE
    /\ probe = NoProbe

\* ------------------------------------------------------------------------
\* LinkChecker.validateUrl (checkers/index.ts)
\* ------------------------------------------------------------------------

\* a backoff that grows by one second per attempt
Pow2Linear(n) == n + 1

RECURSIVE Pow2(_)
Pow2(n) == IF n <= 0 THEN 1 ELSE 2 * Pow2(n - 1)

\* a cache that is never consulted
CacheFreshNever(cache, url, t) == FALSE

CacheFresh(cache, url, t) ==
    url \in DOMAIN cache /\ t - cache[url].timestamp < cacheTTL

CachedResult(cache, url) == [success |-> cache[url].success, error |-> cache[url].error]

HttpErrorType(status) ==
    IF status = 404 THEN "404 Not Found"
    ELSE IF status >= 500 THEN "500 Internal Server Error"
    ELSE "HTTP Error"

ThrownErrorType(resp) ==
    IF resp.name = "AbortError" THEN "Timeout"
    ELSE IF Includes(resp.message, "ENOTFOUND") \/ Includes(resp.message, "getaddrinfo") THEN "DNS Error"
    ELSE IF Includes(resp.message, "certificate") \/ Includes(resp.message, "SSL") THEN "SSL Error"
    ELSE "Network Error"

ResponseOk(resp) == resp.kind = "http" /\ resp.status >= 200 /\ resp.status <= 299

\* an off-by-one retry test
ShouldRetryInclusive(retryAttempt, retryCount) == retryAttempt <= retryCount

ShouldRetry(retryAttempt, retryCount) == retryAttempt < retryCount

\* a validateUrl that retries whatever is not a success
validateUrlStepRetryAll(url, retryAttempt, retryCount, resp) ==
    IF ResponseOk(resp)
    THEN [kind |-> "return", result |-> [success |-> TRUE, error |-> NoError], delay |-> 0]
    ELSE IF ShouldRetry(retryAttempt, retryCount)
    THEN [kind |-> "retry", result |-> [success |-> FALSE, error |-> NoError],
          delay |-> Pow2(retryAttempt) * 1000]
    ELSE [kind |-> "return", delay |-> 0,
          result |-> [success |-> FALSE,
                      error |-> [type |-> IF resp.kind = "http" THEN HttpErrorType(resp.status)
                                          ELSE ThrownErrorType(resp),
                                 url |-> url, statusCode |-> resp.status, sourcePages |-> {}]]]

\* a validateUrl that gives up, and caches the fault, at the first failure
validateUrlStepNoRetry(url, retryAttempt, retryCount, resp) ==
    IF ResponseOk(resp)
    THEN [kind |-> "return", result |-> [success |-> TRUE, error |-> NoError], delay |-> 0]
    ELSE [kind |-> "return", delay |-> 0,
          result |-> [success |-> FALSE,
                      error |-> [type |-> IF resp.kind = "http" THEN HttpErrorType(resp.status)
                                          ELSE ThrownErrorType(resp),
                                 url |-> url, statusCode |-> resp.status, sourcePages |-> {}]]]

\* what validateUrl does with the outcome of its fetch: return a result
\* (which it caches) or back off and call itself with retryAttempt + 1
validateUrlStep(url, retryAttempt, retryCount, resp) ==
    IF ResponseOk(resp)
    THEN [kind |-> "return", result |-> [success |-> TRUE, error |-> NoError], delay |-> 0]
    ELSE IF resp.kind = "http"
    THEN [kind |-> "return", delay |-> 0,
          result |-> [success |-> FALSE,
                      error |-> [type |-> HttpErrorType(resp.status), url |-> url,
                                 statusCode |-> resp.status, sourcePages |-> {}]]]
    ELSE IF ShouldRetry(retryAttempt, retryCount)
    THEN [kind |-> "retry", result |-> [success |-> FALSE, error |-> NoError],
          delay |-> Pow2(retryAttempt) * 1000]
    ELSE [kind |-> "return", delay |-> 0,
          result |-> [success |-> FALSE,
                      error |-> [type |-> ThrownErrorType(resp), url |-> url,
                                 statusCode |-> 0, sourcePages |-> {}]]]

CacheEntry(result, t) == [success |-> result.success, error |-> result.error, timestamp |-> t]

CachePut(cache, url, entry) ==
    [k \in DOMAIN cache \cup {url} |-> IF k = url THEN entry ELSE cache[k]]

\* a validateUrl call in flight; seen lists the status of each response its
\* fetches have had so far (0 for a fetch that threw)
NewCall(url, retryAttempt, n, t0, waited) ==
    [url |-> url, attempt |-> retryAttempt, st |-> "fetch", n |-> n, t0 |-> t0, waited |-> waited,
     seen |-> <<>>]

\* a call answered from the cache resumes its caller before any I/O completes
NoMicrotask == \A u \in DOMAIN calls : calls[u].st # "hit"

Without(f, k) == [x \in DOMAIN f \ {k} |-> f[x]]

LogEntry(who, url, t0, n, result, seen, waited) ==
    [who |-> who, url |-> url, t0 |-> t0, n |-> n, success |-> result.success, error |-> result.error,
     seen |-> seen, waited |-> waited]

\* ------------------------------------------------------------------------
\* WebsiteCrawler (crawler.ts)
\* ------------------------------------------------------------------------

NewLink(url, sources, status) ==
    [url |-> url, sourcePages |-> sources, status |-> status, error |-> NoError, skipReason |-> ""]

\* a rediscovery that resets the record it finds
addDiscoveredLinkReset(m, url, sourcePage) ==
    MapSet(m, Normalized[url],
           NewLink(Normalized[url],
                   IF MapHas(m, Normalized[url])
                   THEN MapGet(m, Normalized[url]).sourcePages \cup {sourcePage}
                   ELSE {sourcePage},
                   "pending"))

\* a rediscovery that replaces the source set of the record it finds
addDiscoveredLinkOverwrite(m, url, sourcePage) ==
    MapSet(m, Normalized[url], NewLink(Normalized[url], {sourcePage}, "pending"))

\* a Frontier keyed by the URL as given
addDiscoveredLinkRawKey(m, url, sourcePage) ==
    IF ~MapHas(m, url)
    THEN MapSet(m, url, NewLink(Normalized[url], {sourcePage}, "pending"))
    ELSE MapSet(m, url, [MapGet(m, url) EXCEPT !.sourcePages = @ \cup {sourcePage}])

addDiscoveredLink(m, url, sourcePage) ==
    LET normalizedUrl == Normalized[url]
    IN  IF ~MapHas(m, normalizedUrl)
        THEN MapSet(m, normalizedUrl, NewLink(normalizedUrl, {sourcePage}, "pending"))
        ELSE MapSet(m, normalizedUrl,
                    [MapGet(m, normalizedUrl) EXCEPT !.sourcePages = @ \cup {sourcePage}])

RECURSIVE addAll(_, _, _)
addAll(m, urls, sourcePage) ==
    IF urls = <<>> THEN m
    ELSE addAll(addDiscoveredLink(m, Head(urls), sourcePage), Tail(urls), sourcePage)

\* crawl() line 233: validateStartUrl begins
StartValidate ==
    /\ pc = "init"
    /\ pc' = "startCheck"
    /\ calls' = (StartUrl(cfg.site) :> NewCall(StartUrl(cfg.site), 0, 1, now, 0))
    /\ UNCHANGED <<cfg, probe, now, responseCache, log, discoveredLinks, crawledUrls, stats,
                   requests, rendered, batch, report, sitemapFetched>>

\* validateRemainingLinks lines 152-169, for the link the result is for;
\* the error object is the one the cache holds
\* a settlement that leaves the validator's error as it came
SettleLinkUnattributed(link, result) ==
    IF result.success THEN [link EXCEPT !.status = "success"]
    ELSE [link EXCEPT !.status = "error", !.error = result.error]

\* a settlement that fails a member once a sibling has failed
SettleLinkCoupled(link, result) ==
    IF result.success /\ ~\E e \in log : e.who = "batch" /\ ~e.success
    THEN [link EXCEPT !.status = "success"]
    ELSE IF result.error # NoError
    THEN [link EXCEPT !.status = "error",
                      !.error = [result.error EXCEPT !.sourcePages = link.sourcePages]]
    ELSE [link EXCEPT !.status = "error"]

SettleLink(link, result) ==
    IF result.success THEN [link EXCEPT !.status = "success"]
    ELSE IF result.error # NoError
    THEN [link EXCEPT !.status = "error",
                      !.error = [result.error EXCEPT !.sourcePages = link.sourcePages]]
    ELSE [link EXCEPT !.status = "error"]

SettleStats(st, result) ==
    [st EXCEPT !.linksChecked = @ + 1,
               !.brokenLinks = IF ~result.success /\ result.error # NoError THEN @ + 1 ELSE @]

AliasCache(cache, url, link) ==
    IF url \in DOMAIN cache /\ link.error # NoError
    THEN [cache EXCEPT ![url].error = link.error]
    ELSE cache

\* a crawl() that goes on whatever validateStartUrl returned
AfterStartCheckIgnored(result) == "sitemap"

\* validateStartUrl lines 58-67, crawl() lines 233-237: an inaccessible
\* start URL makes crawl() throw
AfterStartCheck(result) == IF result.success THEN "sitemap" ELSE "failed"

\* a validateUrl call returns its result to its caller: validateStartUrl
\* (lines 57-67) or a member of the current window (lines 150-169)
Return(u, result, cache, seen) ==
    /\ calls' = Without(calls, u)
    /\ log' = log \cup {LogEntry(IF pc = "startCheck" THEN "start" ELSE "batch",
                                 u, calls[u].t0, calls[u].n, result, seen, calls[u].waited)}
    /\ IF pc = "startCheck"
       THEN /\ pc' = AfterStartCheck(result)
            /\ responseCache' = cache
            /\ UNCHANGED <<discoveredLinks, stats>>
       ELSE /\ pc' = pc
            /\ discoveredLinks' = MapSet(discoveredLinks, u, SettleLink(MapGet(discoveredLinks, u), result))
            /\ responseCache' = AliasCache(cache, u, SettleLink(MapGet(discoveredLinks, u), result))
            /\ stats' = SettleStats(stats, result)
    /\ UNCHANGED <<cfg, probe, now, crawledUrls, requests, rendered, batch, report, sitemapFetched>>

\* the fetch of a call in flight completes (checkers/index.ts lines 223-304)
Respond(u) ==
    /\ pc \in {"startCheck", "validating"}
    /\ u \in DOMAIN calls
    /\ calls[u].st = "fetch"
    /\ NoMicrotask
    /\ \E resp \in HeadResponses(cfg.site, u) :
         LET step == validateUrlStep(u, calls[u].attempt, cfg.retryCount, resp)
         IN  IF step.kind = "retry"
             THEN /\ calls' = [calls EXCEPT ![u].st = "backoff", ![u].waited = @ + step.delay,
                                             ![u].seen = Append(@, resp.status)]
                  /\ UNCHANGED <<cfg, probe, pc, now, responseCache, log, discoveredLinks, crawledUrls,
                                 stats, requests, rendered, batch, report, sitemapFetched>>
             ELSE Return(u, step.result, CachePut(responseCache, u, CacheEntry(step.result, now)),
                         Append(calls[u].seen, resp.status))

\* the backoff delay is over: validateUrl(url, retryAttempt + 1), which
\* consults the cache again before it fetches
BackoffDone(u) ==
    /\ pc \in {"startCheck", "validating"}
    /\ u \in DOMAIN calls
    /\ calls[u].st = "backoff"
    /\ NoMicrotask
    /\ IF CacheFresh(responseCache, u, now)
       THEN Return(u, CachedResult(responseCache, u), responseCache, calls[u].seen)
       ELSE /\ calls' = [calls EXCEPT ![u].st = "fetch", ![u].attempt = @ + 1, ![u].n = @ + 1]
            /\ UNCHANGED <<cfg, probe, pc, now, responseCache, log, discoveredLinks, crawledUrls,
                           stats, requests, rendered, batch, report, sitemapFetched>>

Origin(url) == The({urlObj.protocol \o "//" \o urlObj.hostname : urlObj \in {ParseUrl(url)}})

\* a sitemap document: a sitemap index (locs are sitemaps), a urlset (locs
\* are pages) or some other XML
SitemapFile(kind, locs) == [kind |-> kind, locs |-> locs]

SitemapUrl(site) == "https://x.test/sitemap.xml"

\* what the site serves under its sitemap URL
SitemapFiles(site) == (SitemapUrl(site) :> SitemapFile("urlset", SitemapDoc(site)))

\* utils/sitemap.ts fetchSitemap over the documents files serves: ok = FALSE
\* when it throws (the fetch fails); fetchChildren is the loop of lines
\* 54-64, which skips a child that throws
RECURSIVE fetchSitemap(_, _), fetchChildren(_, _)
fetchSitemap(files, sitemapUrl) ==
    IF sitemapUrl \notin DOMAIN files THEN [ok |-> FALSE, urls |-> <<>>]
    ELSE IF files[sitemapUrl].kind = "sitemapindex"
    THEN [ok |-> TRUE, urls |-> fetchChildren(files, files[sitemapUrl].locs)]
    ELSE IF files[sitemapUrl].kind = "urlset"
    THEN [ok |-> TRUE, urls |-> files[sitemapUrl].locs]
    ELSE [ok |-> TRUE, urls |-> <<>>]

fetchChildren(files, sitemaps) ==
    IF sitemaps = <<>> THEN <<>>
    ELSE The({(IF child.ok THEN child.urls ELSE <<>>) \o fetchChildren(files, Tail(sitemaps)) :
                child \in {fetchSitemap(files, Head(sitemaps))}})

\* utils/sitemap.ts getSitemapUrls: the listed locations of the base URL's origin
getSitemapUrls(site, baseUrl) ==
    The({SelectSeq(fetchSitemap(SitemapFiles(site), SitemapUrl(site)).urls,
                   LAMBDA url : ParseUrl(url).ok /\ Origin(url) = baseOrigin) :
            baseOrigin \in {Origin(baseUrl)}})

Perms(n) == {p \in [1..n -> 1..n] : \A i, j \in 1..n : p[i] = p[j] => i = j}

\* fetchSitemapUrls line 210: the URLs in any order
Shuffles(urls) == {[i \in 1..Len(urls) |-> urls[p[i]]] : p \in Perms(Len(urls))}

SitemapOrders ==
    [site \in Sites |-> UNION {Shuffles(urls) : urls \in {getSitemapUrls(site, StartUrl(site))}}]

\* a seeding that stops after the first URL of the sitemap
SitemapSeedFirstOnly ==
    /\ pc = "sitemap"
    /\ UseSitemap(cfg.site)
    /\ \E shuffled \in SitemapOrders[cfg.site] :
         /\ Len(shuffled) > 0
         /\ discoveredLinks' = addAll(discoveredLinks, SubSeq(shuffled, 1, 1), "sitemap.xml")
    /\ stats' = [stats EXCEPT !.pagesCrawled = 0]
    /\ sitemapFetched' = TRUE
    /\ pc' = "validate"
    /\ UNCHANGED <<cfg, probe, now, responseCache, calls, log, crawledUrls, requests, rendered, batch, report>>

\* crawl() lines 237 and 486-493: the sitemap yields URLs (in the random
\* order of line 210), which seed the Frontier; no page is rendered
SitemapSeed ==
    /\ pc = "sitemap"
    /\ UseSitemap(cfg.site)
    /\ \E shuffled \in SitemapOrders[cfg.site] :
         /\ Len(shuffled) > 0
         /\ discoveredLinks' = addAll(discoveredLinks, shuffled, "sitemap.xml")
    /\ stats' = [stats EXCEPT !.pagesCrawled = 0]
    /\ sitemapFetched' = TRUE
    /\ pc' = "validate"
    /\ UNCHANGED <<cfg, probe, now, responseCache, calls, log, crawledUrls, requests, rendered, batch, report>>

\* validateRemainingLinks lines 111-118
ValidateBegin ==
    /\ pc = "validate"
    /\ batch' = [list |-> SelectSeq(discoveredLinks.order,
                                    LAMBDA k : MapGet(discoveredLinks, k).status = "pending"),
                 i |-> 1]
    /\ pc' = "validating"
    /\ UNCHANGED <<cfg, probe, now, responseCache, calls, log, discoveredLinks, crawledUrls, stats,
                   report, sitemapFetched, requests, rendered>>

\* what a member of a window does with its link before its first await
\* (lines 129-150, and the cache look-up of validateUrl)
Disposition(link) ==
    IF link.url \in Excluded[cfg.excludePatterns] THEN "excluded"
    ELSE IF link.url \in NonHtml THEN "nonHtml"
    ELSE IF CacheFresh(responseCache, link.url, now) THEN "hit"
    ELSE "fetch"

\* a member that leaves an excluded link as it found it
StartMemberUnskipped(link) ==
    CASE Disposition(link) = "excluded" -> link
      [] Disposition(link) = "nonHtml" ->
            [link EXCEPT !.status = "skipped", !.skipReason = "Non-HTML content"]
      [] OTHER -> [link EXCEPT !.status = "checking"]

StartMember(link) ==
    CASE Disposition(link) = "excluded" ->
            [link EXCEPT !.status = "skipped", !.skipReason = "Excluded by pattern"]
      [] Disposition(link) = "nonHtml" ->
            [link EXCEPT !.status = "skipped", !.skipReason = "Non-HTML content"]
      [] OTHER -> [link EXCEPT !.status = "checking"]

\* a loop that does not await its window
WindowSettledAlways == TRUE

\* await Promise.all(...) of line 127 has resolved: no member is in flight
WindowSettled == calls = <<>>

\* lines 124-171: the next window starts once the previous one has settled;
\* every member runs up to its first await: it is skipped, or it is marked
\* checking and its validateUrl call fetches or finds the cache fresh
WindowStart ==
    /\ pc = "validating"
    /\ WindowSettled
    /\ batch.i <= Len(batch.list)
    /\ LET window == {batch.list[j] : j \in batch.i..(batch.i + batchSize - 1)
                                        \cap 1..Len(batch.list)}
           disp(k) == Disposition(MapGet(discoveredLinks, k))
           skips == {k \in window : disp(k) \in {"excluded", "nonHtml"}}
       IN  /\ discoveredLinks' =
                [discoveredLinks EXCEPT !.info =
                    [j \in 1..Len(discoveredLinks.order) |->
                        IF discoveredLinks.order[j] \in window
                        THEN StartMember(discoveredLinks.info[j])
                        ELSE discoveredLinks.info[j]]]
           /\ calls' = [k \in window \ skips |->
                           IF disp(k) = "hit"
                           THEN [NewCall(k, 0, 0, now, 0) EXCEPT !.st = "hit"]
                           ELSE NewCall(k, 0, 1, now, 0)] @@ calls
           /\ stats' = [stats EXCEPT !.skippedLinks = @ + Cardinality(skips)]
    /\ batch' = [batch EXCEPT !.i = @ + batchSize]
    /\ UNCHANGED <<cfg, probe, pc, now, responseCache, log, crawledUrls, requests, rendered, report,
                   sitemapFetched>>

\* a call that found the cache fresh returns the cached outcome
\* (checkers/index.ts lines 210-213)
HitReturn(u) ==
    /\ u \in DOMAIN calls
    /\ calls[u].st = "hit"
    /\ Return(u, CachedResult(responseCache, u), responseCache, calls[u].seen)

\* crawl() lines 526-549: the report, then the teardown
Finish ==
    /\ pc = "validating"
    /\ WindowSettled
    /\ batch.i > Len(batch.list)
    /\ report' = [returned |-> TRUE,
                  stats |-> [stats EXCEPT !.endTime = now],
                  errors |-> [j \in 1..Len(SelectSeq(discoveredLinks.info, LAMBDA l : l.error # NoError)) |->
                                SelectSeq(discoveredLinks.info, LAMBDA l : l.error # NoError)[j].error]]
    /\ stats' = [stats EXCEPT !.endTime = now]
    /\ responseCache' = <<>>
    /\ discoveredLinks' = EmptyMap
    /\ crawledUrls' = {}
    /\ pc' = "done"
    /\ UNCHANGED <<cfg, probe, now, calls, log, requests, rendered, batch, sitemapFetched>>

\* time passes while the run waits for I/O; the clock is read by validateUrl
\* and for endTime only, so the time the crawl takes passes in one step
\* before validateRemainingLinks
Tick ==
    /\ pc \in {"startCheck", "validate", "validating"}
    /\ now < MaxTicks * TickMs
    /\ NoMicrotask
    /\ now' = now + TickMs
    /\ UNCHANGED <<cfg, probe, pc, responseCache, calls, log, discoveredLinks, crawledUrls, stats,
                   requests, rendered, batch, report, sitemapFetched>>

\* ------------------------------------------------------------------------
\* The browser crawl: page requests, requestHandler, failedRequestHandler
\* ------------------------------------------------------------------------

\* new URL(relativeUrl, baseUrl).toString() for an absolute reference
resolveUrl(baseUrl, relativeUrl) ==
    IF ParseUrl(relativeUrl).ok THEN UrlToString(ParseUrl(relativeUrl)) ELSE relativeUrl

RECURSIVE Dedupe(_)
Dedupe(seq) ==
    IF seq = <<>> THEN <<>>
    ELSE LET rest == Dedupe(SubSeq(seq, 1, Len(seq) - 1))
         IN  IF seq[Len(seq)] \in SeqToSet(rest) THEN rest ELSE Append(rest, seq[Len(seq)])

\* PageValidator.extractLinks (no domain replacement configured)
extractLinks(site, currentUrl) ==
    LET links == SelectSeq(Hrefs(site, currentUrl),
                           LAMBDA href : /\ href # ""
                                         /\ ~StartsWith(href, "javascript:")
                                         /\ ~StartsWith(href, "mailto:")
                                         /\ ~StartsWith(href, "tel:")
                                         /\ ~StartsWith(href, "#"))
    IN  Dedupe([i \in 1..Len(links) |-> normalizeUrl(resolveUrl(currentUrl, links[i]))])

PageLinks == [site \in Sites |-> [page \in Urls |-> extractLinks(site, page)]]

\* a page check that looks at the soft-404 phrases only
pageValidatorRunSoftOnly(page, url) ==
    IF page.status = 200 /\ page.soft404
    THEN <<[type |-> "404 Not Found", url |-> url, statusCode |-> 200, sourcePages |-> {}]>>
    ELSE <<>>

\* PageValidator.run: the errors of the response status and of the soft-404 check
pageValidatorRun(page, url) ==
    IF page.status = 404
    THEN <<[type |-> "404 Not Found", url |-> url, statusCode |-> 404, sourcePages |-> {}]>>
    ELSE IF page.status >= 500
    THEN <<[type |-> "500 Internal Server Error", url |-> url, statusCode |-> page.status, sourcePages |-> {}]>>
    ELSE IF page.status >= 400
    THEN <<[type |-> "HTTP Error", url |-> url, statusCode |-> page.status, sourcePages |-> {}]>>
    ELSE IF page.status = 200 /\ page.soft404
    THEN <<[type |-> "404 Not Found", url |-> url, statusCode |-> 200, sourcePages |-> {}]>>
    ELSE <<>>

\* SEOValidator.run: one error per failed metadata check
seoValidatorRun(page, url) ==
    [i \in 1..Len(page.seo) |-> [type |-> page.seo[i], url |-> url, statusCode |-> 0, sourcePages |-> {}]]

\* counters that keep the outcome of the latest page only
CountLatest(c, failed) ==
    [checked |-> c.checked + 1,
     passed |-> IF failed THEN 0 ELSE 1,
     failed |-> IF failed THEN 1 ELSE 0]

\* SEOValidator.run: one warning per metadata value outside its recommended form
seoValidatorWarnings(page, url) ==
    [i \in 1..Len(page.warn) |-> [type |-> page.warn[i], url |-> url]]

\* a check counted as checked only when it passes
CountPassedOnly(c, failed) ==
    IF failed THEN [c EXCEPT !.failed = @ + 1]
    ELSE [c EXCEPT !.checked = @ + 1, !.passed = @ + 1]

Count(c, failed) ==
    [checked |-> c.checked + 1,
     passed |-> IF failed THEN c.passed ELSE c.passed + 1,
     failed |-> IF failed THEN c.failed + 1 ELSE c.failed]

HasType(errors, types) == \E i \in 1..Len(errors) : errors[i].type \in types

\* requestHandler lines 315-364
SeoStats(st, seoErrors) ==
    [st EXCEPT !.seoChecked = @ + 1,
               !.canonicalUrl = Count(@, HasType(seoErrors, {"Missing Canonical URL",
                                          "Duplicate Canonical URLs", "Invalid Canonical URL"})),
               !.metaDescription = Count(@, HasType(seoErrors, {"Missing Meta Description"})),
               !.pageTitle = Count(@, HasType(seoErrors, {"Missing Page Title"})),
               !.openGraphTags = Count(@, HasType(seoErrors, {"Missing Open Graph Tags"})),
               !.seoErrors = IF Len(seoErrors) > 0 THEN @ + 1 ELSE @]

\* brokenLinks counting every error of the page
PageStatsPerError(st, seoErrors, allErrors) ==
    [SeoStats(st, seoErrors) EXCEPT !.linksChecked = @ + 1,
                                    !.brokenLinks = @ + Len(allErrors)]

\* requestHandler lines 315-397: the counters after a page's checks
PageStats(st, seoErrors, allErrors) ==
    [SeoStats(st, seoErrors) EXCEPT !.linksChecked = @ + 1,
                                    !.brokenLinks = IF Len(allErrors) > 0 THEN @ + 1 ELSE @]

\* requestHandler lines 372-395: the record of the rendered URL
RecordPage(m, currentUrl, allErrors) ==
    LET created == IF ~MapHas(m, currentUrl)
                   THEN MapSet(m, currentUrl,
                               NewLink(currentUrl, {"Direct navigation"},
                                       IF Len(allErrors) > 0 THEN "error" ELSE "success"))
                   ELSE m
        linkInfo == MapGet(created, currentUrl)
    IN  IF Len(allErrors) > 0
        THEN MapSet(created, currentUrl,
                    [linkInfo EXCEPT !.status = "error",
                                     !.error = [allErrors[1] EXCEPT !.sourcePages = linkInfo.sourcePages]])
        ELSE MapSet(created, currentUrl, [linkInfo EXCEPT !.status = "success"])

\* a handler whose exception leaves the request neither handled nor failed
AfterHandlerThrowUnsettled == "thrown"

\* requestHandler lines 453-461: the catch swallows what the handler threw,
\* and the request counts as handled
AfterHandlerThrow == "handled"

maxConcurrency == IF cfg.concurrency = 0 THEN 200 ELSE cfg.concurrency

Running == {u \in DOMAIN requests : requests[u].st = "running"}

NewRequest == [st |-> "queued", retries |-> 0]

\* crawl() line 496: no sitemap URLs, so the crawler runs from the start URL
CrawlStart ==
    /\ pc = "sitemap"
    /\ pc' = "crawling"
    /\ sitemapFetched' = UseSitemap(cfg.site)
    /\ requests' = (StartUrl(cfg.site) :> NewRequest)
    /\ UNCHANGED <<cfg, probe, now, responseCache, calls, log, discoveredLinks, crawledUrls, stats,
                   rendered, batch, report>>

failedRequestHandler(m, url, message) ==
    MapSet(m, url,
           [url |-> url, sourcePages |-> {"Direct navigation"}, status |-> "error",
            error |-> [type |-> IF Includes(message, "timeout") THEN "Timeout" ELSE "Network Error",
                       url |-> url, statusCode |-> 0, sourcePages |-> {"Direct navigation"}],
            skipReason |-> ""])

\* an attempt at a request threw: the crawler queues it again, or gives it
\* up and calls failedRequestHandler (lines 464-482)
AttemptFailed(u, message, noRetry, m, st, cu) ==
    IF ~noRetry /\ requests[u].retries < MaxRequestRetries
    THEN /\ requests' = [requests EXCEPT ![u].st = "queued", ![u].retries = @ + 1]
         /\ discoveredLinks' = m
         /\ stats' = st
         /\ crawledUrls' = cu
    ELSE /\ requests' = [requests EXCEPT ![u].st = "failed"]
         /\ discoveredLinks' = failedRequestHandler(m, u, message)
         /\ stats' = [st EXCEPT !.brokenLinks = @ + 1]
         /\ crawledUrls' = cu

\* a queued request is taken up: preNavigationHooks (lines 281-291), the
\* navigation, then requestHandler up to its await of extractLinks
\* (lines 299-397)
HandlerRender(u) ==
    /\ pc = "crawling"
    /\ u \in DOMAIN requests
    /\ requests[u].st = "queued"
    /\ Cardinality(Running) < maxConcurrency
    /\ LET currentUrl == Normalized[u]
       IN  IF u \in Excluded[cfg.excludePatterns]
           THEN /\ AttemptFailed(u, "URL excluded by pattern", TRUE, discoveredLinks, stats, crawledUrls)
                /\ rendered' = rendered
           ELSE IF u \in NonHtml
           THEN /\ AttemptFailed(u, "Non-HTML content", TRUE, discoveredLinks, stats, crawledUrls)
                /\ rendered' = rendered
           ELSE /\ rendered' = rendered + 1
                /\ \/ \E page \in Pages(cfg.site, currentUrl) :
                        LET seoErrors == seoValidatorRun(page, currentUrl)
                            allErrors == pageValidatorRun(page, currentUrl) \o seoErrors
                        IN  /\ crawledUrls' = crawledUrls \cup {currentUrl}
                            /\ discoveredLinks' = RecordPage(discoveredLinks, currentUrl, allErrors)
                            /\ stats' = PageStats(stats, seoErrors, allErrors)
                            /\ requests' = [requests EXCEPT ![u].st = "running"]
                   \/ /\ Unreliable(cfg.site)
                      /\ AttemptFailed(u, "Navigation timed out after 60 seconds.", FALSE,
                                       discoveredLinks, stats, crawledUrls)
                   \/ \* a wait or a validator throws: the handler's catch (lines 453-461)
                      /\ Unreliable(cfg.site)
                      /\ crawledUrls' = crawledUrls \cup {currentUrl}
                      /\ requests' = [requests EXCEPT ![u].st = AfterHandlerThrow]
                      /\ UNCHANGED <<discoveredLinks, stats>>
                   \/ \* the handler outlives requestHandlerTimeoutSecs in its waits
                      /\ Unreliable(cfg.site)
                      /\ AttemptFailed(u, "requestHandler timed out after 60 seconds.", FALSE,
                                       discoveredLinks, stats, crawledUrls \cup {currentUrl})
    /\ UNCHANGED <<cfg, probe, pc, now, responseCache, calls, log, batch, report, sitemapFetched>>

RECURSIVE EnqueueAll(_, _)
EnqueueAll(q, urls) ==
    IF urls = <<>> THEN q
    ELSE EnqueueAll(IF Head(urls) \in DOMAIN q THEN q ELSE (Head(urls) :> NewRequest) @@ q, Tail(urls))

\* requestHandler lines 400-451: the links of the page join the Frontier,
\* the internal ones not yet crawled are queued for rendering
HandlerLinks(u) ==
    /\ pc = "crawling"
    /\ u \in DOMAIN requests
    /\ requests[u].st = "running"
    /\ LET currentUrl == Normalized[u]
           links == PageLinks[cfg.site][currentUrl]
           linksToEnqueue == SelectSeq(links, LAMBDA link :
                                 /\ Normalized[link] \notin crawledUrls
                                 /\ link \notin Excluded[cfg.excludePatterns]
                                 /\ link \notin NonHtml
                                 /\ <<link, StartUrl(cfg.site)>> \in SameDomain)
       IN  \/ /\ discoveredLinks' = addAll(discoveredLinks, links, currentUrl)
              /\ requests' = EnqueueAll([requests EXCEPT ![u].st = "handled"],
                                        [i \in 1..Len(linksToEnqueue) |->
                                            Normalized[Normalized[linksToEnqueue[i]]]])
              /\ stats' = [stats EXCEPT !.pagesCrawled = @ + 1]
              /\ UNCHANGED crawledUrls
           \/ \* extractLinks throws: the handler's catch
              /\ Unreliable(cfg.site)
              /\ requests' = [requests EXCEPT ![u].st = AfterHandlerThrow]
              /\ UNCHANGED <<discoveredLinks, stats, crawledUrls>>
           \/ \* the handler outlives requestHandlerTimeoutSecs
              /\ Unreliable(cfg.site)
              /\ AttemptFailed(u, "requestHandler timed out after 60 seconds.", FALSE,
                               discoveredLinks, stats, crawledUrls)
    /\ UNCHANGED <<cfg, probe, pc, now, responseCache, calls, log, rendered, batch, report, sitemapFetched>>

\* crawler.run() resolves: every request is handled or has failed, and the
\* crawler's queue is not used again
CrawlEnd ==
    /\ pc = "crawling"
    /\ \A u \in DOMAIN requests : requests[u].st \in {"handled", "failed"}
    /\ pc' = "validate"
    /\ requests' = <<>>
    /\ UNCHANGED <<cfg, probe, now, responseCache, calls, log, discoveredLinks, crawledUrls, stats,
                   rendered, batch, report, sitemapFetched>>

Next ==
    \/ StartValidate
    \/ \E u \in DOMAIN calls : Respond(u)
    \/ \E u \in DOMAIN calls : BackoffDone(u)
    \/ SitemapSeed
    \/ CrawlStart
    \/ \E u \in DOMAIN requests : HandlerRender(u)
    \/ \E u \in DOMAIN requests : HandlerLinks(u)
    \/ CrawlEnd
    \/ ValidateBegin
    \/ WindowStart
    \/ \E u \in DOMAIN calls : HitReturn(u)
    \/ Finish
    \/ Tick

Spec == Init /\ [][Next]_vars

\* fairness: whatever the run waits for eventually returns or fails; the
\* clock is under no obligation
Progress ==
    \/ StartValidate
    \/ \E u \in DOMAIN calls : Respond(u)
    \/ \E u \in DOMAIN calls : BackoffDone(u)
    \/ SitemapSeed
    \/ CrawlStart
    \/ \E u \in DOMAIN requests : HandlerRender(u)
    \/ \E u \in DOMAIN requests : HandlerLinks(u)
    \/ CrawlEnd
    \/ ValidateBegin
    \/ WindowStart
    \/ \E u \in DOMAIN calls : HitReturn(u)
    \/ Finish

\* the runs with the most retries and the widest windows
LiveInit ==
    /\ Init
    /\ cfg.retryCount = MaxRetryCount
    /\ cfg.concurrency = MaxConcurrency
    /\ cfg.excludePatterns = <<>>

LiveSpec == LiveInit /\ [][Next]_vars /\ WF_vars(Progress)

\* ------------------------------------------------------------------------
\* The helpers on their own: addDiscoveredLink over a Frontier, fetchSitemap
\* over the documents of a site
\* ------------------------------------------------------------------------

\* addDiscoveredLink calls made on their own in one run
MaxAdds == 3

\* entries of a child sitemap
MaxLocs == 2

\* the Frontier the calls start from: empty, or holding the record the page
\* handler wrote for the rendered start page
MaxRenders == 2

\* the URLs rendered and what rendering can show of them
RenderUrls == {"https://x.test/docs", "https://x.test/a"}

RenderedPages ==
    {Page(200, FALSE, <<>>),
     Warned(Page(200, FALSE, <<>>), <<"Short Title">>),
     Warned(Page(200, FALSE, <<>>), <<"Non-Self-Referential Canonical", "Long Meta Description">>),
     Page(200, TRUE, <<>>),
     Page(404, FALSE, <<"Missing Canonical URL", "Missing Page Title">>),
     Page(200, FALSE, <<"Missing Meta Description">>),
     Warned(Page(200, FALSE, <<"Missing Open Graph Tags">>), <<"Long Title">>)}

AddSeeds == {EmptyMap, RecordPage(EmptyMap, "https://x.test/docs", <<>>)}

SeqsUpTo(S, n) == UNION {[1..k -> S] : k \in 0..n}

SitemapIndexUrl == "https://x.test/sitemap_index.xml"

ChildUrls == <<"https://x.test/sitemap-1.xml", "https://x.test/sitemap-2.xml">>

\* an index of two child sitemaps, each listing its URLs once; the second
\* child may fail to load
IndexedSitemaps ==
    LET locs == {l \in SeqsUpTo({"https://x.test/a", "https://x.test/b"}, MaxLocs) :
                    \A i, j \in 1..Len(l) : l[i] = l[j] => i = j}
        index == SitemapIndexUrl :> SitemapFile("sitemapindex", ChildUrls)
    IN  {index @@ (ChildUrls[1] :> SitemapFile("urlset", l1)) : l1 \in locs}
        \cup {index @@ (ChildUrls[1] :> SitemapFile("urlset", l1))
                     @@ (ChildUrls[2] :> SitemapFile("urlset", l2)) : l1 \in locs, l2 \in locs}


\* ------------------------------------------------------------------------
\* checkers/page-validator.ts: detectSoft404
\* ------------------------------------------------------------------------

\* line 60: a body shorter than this has minimal content
MinimalContent == 200

\* lines 42-53
NotFoundPatterns ==
    <<"page not found", "404", "not found", "page cannot be found", "page does not exist",
      "page doesn't exist", "the page you are looking for", "the page you requested",
      "could not be found", "no longer exists">>

\* a body counts as minimal up to and including the threshold
detectSoft404Inclusive(title, bodyText) ==
    \/ \E i \in 1..Len(NotFoundPatterns) : Includes(ToLowerCase(title), NotFoundPatterns[i])
    \/ /\ \E i \in 1..Len(NotFoundPatterns) : Includes(ToLowerCase(bodyText), NotFoundPatterns[i])
       /\ Len(ToLowerCase(bodyText)) <= MinimalContent

\* lines 35-80, for a document with the given title and visible body text
detectSoft404(title, bodyText) ==
    \E lowered \in {<<ToLowerCase(title), ToLowerCase(bodyText)>>} :
        \/ \E i \in 1..Len(NotFoundPatterns) : Includes(lowered[1], NotFoundPatterns[i])
        \/ /\ \E i \in 1..Len(NotFoundPatterns) : Includes(lowered[2], NotFoundPatterns[i])
           /\ Len(lowered[2]) < MinimalContent

\* n characters of text without a not-found phrase
RECURSIVE Filler(_)
Filler(n) ==
    IF n = 0 THEN ""
    ELSE IF n % 2 = 1 THEN "x" \o Filler(n - 1)
    ELSE The({half \o half : half \in {Filler(n \div 2)}})

Titles == {"Page Not Found", "Docs", "Error 404 - Acme", "Welcome"}

\* bodies on both sides of the threshold, with and without a phrase
Bodies ==
    {"Welcome to the docs",
     "Sorry, this page Could Not Be Found.",
     Filler(MinimalContent - 15) \o "Page Not Found",
     Filler(MinimalContent - 14) \o "Page Not Found",
     Filler(MinimalContent + 50),
     Filler(MinimalContent) \o " no longer exists " \o Filler(MinimalContent)}

PageStatuses == {200, 203, 404}


\* ------------------------------------------------------------------------
\* checkers/seo-validator.ts: the description and title checks
\* ------------------------------------------------------------------------

\* !text || text.trim() === '': absent, empty or white space only
Blank(text) == \A i \in 1..Len(text) : CharAt(text, i) = " "

NoFindings == [errors |-> <<>>, warnings |-> <<>>]

\* lines 138-162; a page without the tag gives ""
descriptionCheck(metaDescription) ==
    IF Blank(metaDescription) THEN [NoFindings EXCEPT !.errors = <<"Missing Meta Description">>]
    ELSE IF Len(metaDescription) < 50 THEN [NoFindings EXCEPT !.warnings = <<"Short Meta Description">>]
    ELSE IF Len(metaDescription) > 160 THEN [NoFindings EXCEPT !.warnings = <<"Long Meta Description">>]
    ELSE NoFindings

\* lines 164-190
titleCheck(title) ==
    IF Blank(title) THEN [NoFindings EXCEPT !.errors = <<"Missing Page Title">>]
    ELSE IF Len(title) < 10 THEN [NoFindings EXCEPT !.warnings = <<"Short Title">>]
    ELSE IF Len(title) > 60 THEN [NoFindings EXCEPT !.warnings = <<"Long Title">>]
    ELSE NoFindings

\* descriptions and titles by length, on both sides of every threshold
DescriptionLengths == {0, 1, 49, 50, 100, 160, 161}

TitleLengths == {0, 1, 9, 10, 20, 29, 30, 60, 61}

Descriptions == {Filler(n) : n \in DescriptionLengths} \cup {"   "}

TitleTexts == {Filler(n) : n \in TitleLengths} \cup {"  "}


\* ------------------------------------------------------------------------
\* cli.ts main, utils/config.ts, utils/validation.ts
\* ------------------------------------------------------------------------

\* a value that may be undefined is <<>> or <<v>>
Undefined == <<>>

Some(v) == <<v>>

ConfigFields ==
    {"url", "concurrency", "timeout", "excludePatterns", "replaceFrom", "replaceTo",
     "retryCount", "noFail", "useSitemap", "sitemapUrl"}

\* config[k], undefined when the object has no such key
Get(config, k) == IF k \in DOMAIN config THEN config[k] ELSE Undefined

\* String.prototype.trim
RECURSIVE Trim(_)
Trim(s) ==
    IF s = "" THEN ""
    ELSE IF CharAt(s, 1) = " " THEN Trim(Tail(s))
    ELSE IF CharAt(s, Len(s)) = " " THEN Trim(SubSeq(s, 1, Len(s) - 1))
    ELSE s

\* s.split(',').map(p => p.trim())
RECURSIVE SplitTrim(_)
SplitTrim(s) ==
    IF FindFirst(s, 1, {","}) > Len(s) THEN <<Trim(s)>>
    ELSE <<Trim(SubSeq(s, 1, FindFirst(s, 1, {","}) - 1))>>
            \o SplitTrim(SubSeq(s, FindFirst(s, 1, {","}) + 1, Len(s)))

\* cli.ts lines 81-92: every key is present, undefined when its option was
\* not given, except noFail, which is always a boolean
cliOptions(options) ==
    [url |-> options.url,
     concurrency |-> options.concurrency,
     timeout |-> options.timeout,
     excludePatterns |-> IF options.excludePatterns \in {Undefined, Some("")} THEN Undefined
                         ELSE Some(SplitTrim(options.excludePatterns[1])),
     replaceFrom |-> options.replaceFrom,
     replaceTo |-> options.replaceTo,
     retryCount |-> options.retryCount,
     noFail |-> Some(options.fail = Some(FALSE)),
     useSitemap |-> options.useSitemap,
     sitemapUrl |-> options.sitemapUrl]

\* { ...a, ...b }: every own key of b, undefined values included, overrides a
Spread(a, b) == [k \in DOMAIN a \cup DOMAIN b |-> IF k \in DOMAIN b THEN b[k] ELSE a[k]]

\* config.ts lines 70-82
mergeConfig(cli, fileConfig) ==
    IF fileConfig = Undefined THEN cli ELSE Spread(fileConfig[1], cli)

\* config.ts lines 88-96
getDefaultConfig ==
    [concurrency |-> Some(3), timeout |-> Some(60), retryCount |-> Some(3),
     noFail |-> Some(FALSE), excludePatterns |-> Some(<<>>)]

\* a ?? b
Nullish(a, b) == IF a = Undefined THEN b ELSE a

\* config.ts lines 103-116
applyDefaults(config) ==
    [url |-> IF Get(config, "url") \in {Undefined, Some("")} THEN Some("") ELSE config.url,
     concurrency |-> Nullish(Get(config, "concurrency"), getDefaultConfig.concurrency),
     timeout |-> Nullish(Get(config, "timeout"), getDefaultConfig.timeout),
     retryCount |-> Nullish(Get(config, "retryCount"), getDefaultConfig.retryCount),
     noFail |-> Nullish(Get(config, "noFail"), getDefaultConfig.noFail),
     excludePatterns |-> Nullish(Get(config, "excludePatterns"), getDefaultConfig.excludePatterns),
     replaceFrom |-> Get(config, "replaceFrom"),
     replaceTo |-> Get(config, "replaceTo")]

\* a string that is undefined or empty is falsy
Falsy(o) == o \in {Undefined, Some("")}

\* a validation that does not look at the replacement URLs
validateConfigNoReplace(config) ==
    IF Falsy(config.url) THEN "URL is required. Use --url=<url> or add url to config file."
    ELSE IF ~isValidUrl(config.url[1]) THEN "Invalid URL"
    ELSE IF config.concurrency # Undefined /\ (config.concurrency[1] < 1 \/ config.concurrency[1] > 100)
    THEN "Concurrency must be between 1 and 100"
    ELSE IF config.timeout # Undefined /\ (config.timeout[1] < 1 \/ config.timeout[1] > 600)
    THEN "Timeout must be between 1 and 600 seconds"
    ELSE IF config.retryCount # Undefined /\ (config.retryCount[1] < 0 \/ config.retryCount[1] > 10)
    THEN "Retry count must be between 0 and 10"
    ELSE ""

\* validation.ts lines 19-60: the message of the ValidationError thrown, ""
\* when the configuration passes
validateConfig(config) ==
    IF Falsy(config.url) THEN "URL is required. Use --url=<url> or add url to config file."
    ELSE IF ~isValidUrl(config.url[1]) THEN "Invalid URL"
    ELSE IF config.concurrency # Undefined /\ (config.concurrency[1] < 1 \/ config.concurrency[1] > 100)
    THEN "Concurrency must be between 1 and 100"
    ELSE IF config.timeout # Undefined /\ (config.timeout[1] < 1 \/ config.timeout[1] > 600)
    THEN "Timeout must be between 1 and 600 seconds"
    ELSE IF config.retryCount # Undefined /\ (config.retryCount[1] < 0 \/ config.retryCount[1] > 10)
    THEN "Retry count must be between 0 and 10"
    ELSE IF ~Falsy(config.replaceFrom) /\ Falsy(config.replaceTo)
    THEN "--replaceTo is required when --replaceFrom is specified"
    ELSE IF ~Falsy(config.replaceTo) /\ Falsy(config.replaceFrom)
    THEN "--replaceFrom is required when --replaceTo is specified"
    ELSE IF ~Falsy(config.replaceFrom) /\ ~isValidUrl(config.replaceFrom[1])
    THEN "Invalid replaceFrom URL"
    ELSE IF ~Falsy(config.replaceTo) /\ ~isValidUrl(config.replaceTo[1])
    THEN "Invalid replaceTo URL"
    ELSE ""

\* an exit code that does not look at noFail
exitCodeStrict(reportData, config) == IF reportData.errors > 0 THEN 1 ELSE 0

\* cli.ts lines 136-141, for a report with the given number of errors
exitCode(reportData, config) ==
    IF reportData.errors > 0 /\ config.noFail # Some(TRUE) THEN 1 ELSE 0

\* cli.ts lines 143-160: every error main catches ends the process with 2
exitCodeOnError(message) == 2

\* what commander hands to main when no option is given
NoOptions ==
    [url |-> Undefined, concurrency |-> Undefined, timeout |-> Undefined,
     excludePatterns |-> Undefined, replaceFrom |-> Undefined, replaceTo |-> Undefined,
     retryCount |-> Undefined, fail |-> Some(TRUE), useSitemap |-> Undefined,
     sitemapUrl |-> Undefined]

UrlOption == [NoOptions EXCEPT !.url = Some("https://x.test/")]

\* command lines: options given or left out, and values on both sides of
\* every limit of validateConfig
CommandLines ==
    {[NoOptions EXCEPT !.url = u, !.concurrency = c, !.retryCount = r, !.fail = f] :
        u \in {Undefined, Some("https://x.test/")}, c \in {Undefined, Some(5)},
        r \in {Undefined, Some(0)}, f \in {Some(TRUE), Some(FALSE)}}
    \cup {[NoOptions EXCEPT !.url = Some("x.test")]}
    \cup {[UrlOption EXCEPT !.concurrency = Some(c)] : c \in {0, 1, 100, 101}}
    \cup {[UrlOption EXCEPT !.timeout = Some(t)] : t \in {0, 1, 600, 601}}
    \cup {[UrlOption EXCEPT !.retryCount = Some(r)] : r \in {-1, 10, 11}}
    \cup {[UrlOption EXCEPT !.replaceFrom = from, !.replaceTo = to] :
             from \in {Undefined, Some("https://prod.test"), Some("prod.test")},
             to \in {Undefined, Some("https://x.test"), Some("x.test")}}
    \cup {[UrlOption EXCEPT !.useSitemap = Some(TRUE), !.sitemapUrl = Some("https://x.test/sitemap.xml")],
          [UrlOption EXCEPT !.excludePatterns = Some("/admin/*, *.pdf")]}

\* what loadConfigFile returns: no file, or the object the file exports
ConfigFiles ==
    {Undefined,
     Some([url |-> Some("https://file.test/"), concurrency |-> Some(7), noFail |-> Some(TRUE),
           useSitemap |-> Some(TRUE)]),
     Some([timeout |-> Some(30), excludePatterns |-> Some(<<"/api/*">>)]),
     Some([concurrency |-> Some(500)])}

\* how crawler.crawl() ends: a report with so many errors, or an exception
CrawlOutcomes ==
    {[kind |-> "report", errors |-> n, message |-> ""] : n \in 0..2}
    \cup {[kind |-> "throw", errors |-> 0, message |-> m] :
             m \in {"Start URL is not accessible: https://x.test/", "browserType.launch: failed"}}

NoOutcome == [kind |-> "none", errors |-> 0, message |-> ""]

\* process.argv.length - 2
ArgCount(options) ==
    Cardinality({f \in DOMAIN options : options[f] # NoOptions[f]})


\* ------------------------------------------------------------------------
\* utils/url.ts on its own
\* ------------------------------------------------------------------------

\* inputs of normalizeUrl: roots, paths with none, one and several trailing
\* slashes, query and fragment, upper case, and strings that are no URLs
NormalizeInputs ==
    {"https://x.test", "https://x.test/", "https://x.test/a", "https://x.test/a/",
     "https://x.test/a//", "https://x.test/a/b/?q=1#h", "https://X.test/A/", "https://x.test//",
     "not a url", "/relative/", ""}

\* inputs of isSameDomain
DomainInputs ==
    {"https://x.test/", "https://www.x.test/a", "https://X.test", "https://ext.test/p",
     "https://www./", "not a url", ""}

\* patterns and URLs for matchesExcludePattern
GlobPatterns == {"/admin/*", "/admin", "*.pdf", "/a.b", "*/docs/*", "https://x.test/*", "*"}

GlobUrls ==
    {"https://x.test/admin/users", "https://x.test/admin/", "https://x.test/administration",
     "https://x.test/admin", "https://x.test/f.pdf", "https://x.test/aXb", "https://x.test/a.b",
     "https://x.test/docs/x", "https://ext.test/p", "not a url"}


\* ------------------------------------------------------------------------
\* LinkChecker.validateUrl on its own: one call, its fetches and its waits
\* ------------------------------------------------------------------------

\* retryCount of the call is 0..MaxProbeRetries
MaxProbeRetries == 3

HelperInit ==
    /\ cfg = [site |-> "general", concurrency |-> 0, retryCount |-> 0, excludePatterns |-> <<>>]
    /\ pc = "helper"
    /\ now = 0
    /\ responseCache = <<>>
    /\ calls = <<>>
    /\ log = {}
    /\ crawledUrls = {}
    /\ stats = InitStats
    /\ requests = <<>>
    /\ rendered = 0
    /\ batch = [list |-> <<>>, i |-> 1]
    /\ report = NoReport
    /\ sitemapFetched = FALSE
    /\ \/ /\ discoveredLinks \in AddSeeds
          /\ probe = [fn |-> "addDiscoveredLink", seed |-> discoveredLinks, in |-> <<>>]
       \/ /\ discoveredLinks = EmptyMap
          /\ \E files \in IndexedSitemaps :
                probe = [fn |-> "fetchSitemap", files |-> files, done |-> FALSE, urls |-> <<>>]
       \/ /\ discoveredLinks \in AddSeeds
          /\ probe = [fn |-> "requestHandler", in |-> <<>>]
       \/ /\ discoveredLinks = EmptyMap
          /\ probe = [fn |-> "PageValidator.run", done |-> FALSE]
       \/ /\ discoveredLinks = EmptyMap
          /\ probe = [fn |-> "SEOValidator.run", done |-> FALSE]
       \/ /\ discoveredLinks = EmptyMap
          /\ \E options \in CommandLines, fileConfig \in ConfigFiles :
                probe = [fn |-> "main", stage |-> "start", options |-> options,
                         fileConfig |-> fileConfig, config |-> <<>>, invalid |-> "",
                         crawler |-> FALSE, network |-> 0, outcome |-> NoOutcome, exit |-> -1]
       \/ /\ discoveredLinks = EmptyMap
          /\ probe \in {[fn |-> f, done |-> FALSE] : f \in {"normalizeUrl", "isSameDomain", "matchesExcludePattern"}}
       \/ /\ discoveredLinks = EmptyMap
          /\ \E retryCount \in 0..MaxProbeRetries :
                probe = [fn |-> "validateUrl", retryCount |-> retryCount, st |-> "fetch",
                         retryAttempt |-> 0, clock |-> 0, fetchAt |-> <<0>>, seen |-> <<>>,
                         returnedAt |-> -1, result |-> [success |-> FALSE, error |-> NoError]]

\* one more addDiscoveredLink(url, sourcePage)
AddLink ==
    /\ probe.fn = "addDiscoveredLink"
    /\ Len(probe.in) < MaxAdds
    /\ \E url \in AddUrls, sourcePage \in AddSources :
          /\ discoveredLinks' = addDiscoveredLink(discoveredLinks, url, sourcePage)
          /\ probe' = [probe EXCEPT !.in = Append(@, [url |-> url, sourcePage |-> sourcePage])]
    /\ UNCHANGED <<cfg, pc, now, responseCache, calls, log, crawledUrls, stats, requests,
                   rendered, batch, report, sitemapFetched>>

\* fetchSitemap(sitemapUrl) of the index resolves
IngestSitemap ==
    /\ probe.fn = "fetchSitemap"
    /\ ~probe.done
    /\ probe' = [probe EXCEPT !.done = TRUE,
                              !.urls = fetchSitemap(probe.files, SitemapIndexUrl).urls]
    /\ UNCHANGED <<cfg, pc, now, responseCache, calls, log, discoveredLinks, crawledUrls, stats,
                   requests, rendered, batch, report, sitemapFetched>>

\* requestHandler lines 299-397 for one more rendered page: its checks, its
\* record and the counters
RenderPage ==
    /\ probe.fn = "requestHandler"
    /\ Len(probe.in) < MaxRenders
    /\ \E currentUrl \in RenderUrls, page \in RenderedPages :
          LET seoErrors == seoValidatorRun(page, currentUrl)
              allErrors == pageValidatorRun(page, currentUrl) \o seoErrors
              allWarnings == seoValidatorWarnings(page, currentUrl)
          IN  /\ discoveredLinks' = RecordPage(discoveredLinks, currentUrl, allErrors)
              /\ stats' = PageStats(stats, seoErrors, allErrors)
              /\ crawledUrls' = crawledUrls \cup {currentUrl}
              /\ rendered' = rendered + 1
              /\ probe' = [probe EXCEPT !.in = Append(@, [url |-> currentUrl, errors |-> allErrors,
                                                          warnings |-> allWarnings])]
    /\ UNCHANGED <<cfg, pc, now, responseCache, calls, log, requests, batch, report, sitemapFetched>>

\* PageValidator.run(page, url, response) on a loaded document
ValidatePage ==
    /\ probe.fn = "PageValidator.run"
    /\ ~probe.done
    /\ \E status \in PageStatuses, title \in Titles, bodyText \in Bodies :
          probe' = [fn |-> "PageValidator.run", done |-> TRUE, status |-> status,
                    title |-> title, bodyText |-> bodyText,
                    errors |-> pageValidatorRun(Page(status, detectSoft404(title, bodyText), <<>>),
                                                "https://x.test/docs")]
    /\ UNCHANGED <<cfg, pc, now, responseCache, calls, log, discoveredLinks, crawledUrls, stats,
                   requests, rendered, batch, report, sitemapFetched>>

\* SEOValidator.run on a page with the given description and title, its
\* canonical link and social tags in order
ValidateSeo ==
    /\ probe.fn = "SEOValidator.run"
    /\ ~probe.done
    /\ \E metaDescription \in Descriptions, title \in TitleTexts :
          \E d \in {descriptionCheck(metaDescription)}, t \in {titleCheck(title)} :
             \E page \in {Warned(Page(200, FALSE, d.errors \o t.errors), d.warnings \o t.warnings)} :
                probe' = [fn |-> "SEOValidator.run", done |-> TRUE,
                          metaDescription |-> metaDescription, title |-> title,
                          errors |-> seoValidatorRun(page, "https://x.test/docs"),
                          warnings |-> seoValidatorWarnings(page, "https://x.test/docs")]
    /\ UNCHANGED <<cfg, pc, now, responseCache, calls, log, discoveredLinks, crawledUrls, stats,
                   requests, rendered, batch, report, sitemapFetched>>

\* cli.ts lines 72-75: without arguments main shows the help and returns
CliHelp ==
    /\ probe.fn = "main"
    /\ probe.stage = "start"
    /\ ArgCount(probe.options) = 0
    /\ probe' = [probe EXCEPT !.stage = "help"]
    /\ UNCHANGED <<cfg, pc, now, responseCache, calls, log, discoveredLinks, crawledUrls, stats,
                   requests, rendered, batch, report, sitemapFetched>>

\* cli.ts lines 77-101 and 143-147: the configuration is merged, completed
\* and validated; a ValidationError ends the process
CliConfigure ==
    /\ probe.fn = "main"
    /\ probe.stage = "start"
    /\ ArgCount(probe.options) > 0
    /\ \E config \in {applyDefaults(mergeConfig(cliOptions(probe.options), probe.fileConfig))} :
          \E invalid \in {validateConfig(config)} :
             probe' = [probe EXCEPT !.config = config, !.invalid = invalid,
                                    !.stage = IF invalid = "" THEN "configured" ELSE "exited",
                                    !.exit = IF invalid = "" THEN @ ELSE exitCodeOnError(invalid)]
    /\ UNCHANGED <<cfg, pc, now, responseCache, calls, log, discoveredLinks, crawledUrls, stats,
                   requests, rendered, batch, report, sitemapFetched>>

\* cli.ts lines 125-127: the crawler is constructed and run
CliCrawl ==
    /\ probe.fn = "main"
    /\ probe.stage = "configured"
    /\ \E outcome \in CrawlOutcomes :
          probe' = [probe EXCEPT !.stage = "crawled", !.crawler = TRUE, !.network = @ + 1,
                                 !.outcome = outcome]
    /\ UNCHANGED <<cfg, pc, now, responseCache, calls, log, discoveredLinks, crawledUrls, stats,
                   requests, rendered, batch, report, sitemapFetched>>

\* cli.ts lines 129-160: the reports are written and the process exits
CliExit ==
    /\ probe.fn = "main"
    /\ probe.stage = "crawled"
    /\ probe' = [probe EXCEPT !.stage = "exited",
                              !.exit = IF probe.outcome.kind = "report"
                                       THEN exitCode(probe.outcome, probe.config)
                                       ELSE exitCodeOnError(probe.outcome.message)]
    /\ UNCHANGED <<cfg, pc, now, responseCache, calls, log, discoveredLinks, crawledUrls, stats,
                   requests, rendered, batch, report, sitemapFetched>>

\* normalizeUrl(url), and normalizeUrl of its result
NormalizeTwice ==
    /\ probe.fn = "normalizeUrl"
    /\ ~probe.done
    /\ \E url \in NormalizeInputs :
          \E once \in {normalizeUrl(url)} :
             probe' = [fn |-> "normalizeUrl", done |-> TRUE, url |-> url, once |-> once,
                       twice |-> normalizeUrl(once)]
    /\ UNCHANGED <<cfg, pc, now, responseCache, calls, log, discoveredLinks, crawledUrls, stats,
                   requests, rendered, batch, report, sitemapFetched>>

\* isSameDomain on a pair of strings, both ways round, and on each with itself
CompareDomains ==
    /\ probe.fn = "isSameDomain"
    /\ ~probe.done
    /\ \E a \in DomainInputs, b \in DomainInputs :
          probe' = [fn |-> "isSameDomain", done |-> TRUE, a |-> a, b |-> b,
                    ab |-> isSameDomain(a, b), ba |-> isSameDomain(b, a),
                    aa |-> isSameDomain(a, a)]
    /\ UNCHANGED <<cfg, pc, now, responseCache, calls, log, discoveredLinks, crawledUrls, stats,
                   requests, rendered, batch, report, sitemapFetched>>

\* matchesExcludePattern(url, [pattern])
MatchPattern ==
    /\ probe.fn = "matchesExcludePattern"
    /\ ~probe.done
    /\ \E pattern \in GlobPatterns, url \in GlobUrls :
          probe' = [fn |-> "matchesExcludePattern", done |-> TRUE, pattern |-> pattern,
                    url |-> url, matches |-> matchesExcludePattern(url, <<pattern>>)]
    /\ UNCHANGED <<cfg, pc, now, responseCache, calls, log, discoveredLinks, crawledUrls, stats,
                   requests, rendered, batch, report, sitemapFetched>>

\* the fetch of the call completes (types/index.ts lines 223-304): the
\* call returns, or starts the wait of lines 270-271
ProbeFetch ==
    /\ probe.fn = "validateUrl"
    /\ probe.st = "fetch"
    /\ \E resp \in Responses :
          \E step \in {validateUrlStep("https://x.test/a", probe.retryAttempt, probe.retryCount, resp)} :
             probe' = IF step.kind = "retry"
                      THEN [probe EXCEPT !.st = "backoff", !.clock = @ + step.delay,
                                         !.seen = Append(@, resp.status)]
                      ELSE [probe EXCEPT !.st = "returned", !.returnedAt = probe.clock,
                                         !.seen = Append(@, resp.status), !.result = step.result]
    /\ UNCHANGED <<cfg, pc, now, responseCache, calls, log, discoveredLinks, crawledUrls, stats,
                   requests, rendered, batch, report, sitemapFetched>>

\* the wait is over: validateUrl(url, retryAttempt + 1) fetches (line 272)
ProbeBackoff ==
    /\ probe.fn = "validateUrl"
    /\ probe.st = "backoff"
    /\ probe' = [probe EXCEPT !.st = "fetch", !.retryAttempt = @ + 1,
                              !.fetchAt = Append(@, probe.clock)]
    /\ UNCHANGED <<cfg, pc, now, responseCache, calls, log, discoveredLinks, crawledUrls, stats,
                   requests, rendered, batch, report, sitemapFetched>>

HelperNext == AddLink \/ IngestSitemap \/ RenderPage \/ ValidatePage \/ ValidateSeo \/ CliHelp \/ CliConfigure \/ CliCrawl \/ CliExit \/ NormalizeTwice \/ CompareDomains \/ MatchPattern \/ ProbeFetch \/ ProbeBackoff

HelperSpec == HelperInit /\ [][HelperNext]_vars

\* ------------------------------------------------------------------------
\* utils/sitemap.ts fetchSitemap step by step: the calls in progress, one
\* frame per sitemap index whose loop of lines 54-64 is running
\* ------------------------------------------------------------------------

\* entries of a sitemap index
MaxEntries == 2

\* fetches after which the walk of a self-referential index is cut off;
\* more than any index graph without a cycle needs
FetchCap == MaxEntries * (MaxEntries + 1) + 2

WalkRoot == "https://x.test/sitemap_index.xml"

WalkA == "https://x.test/sitemap-a.xml"

WalkB == "https://x.test/sitemap-b.xml"

\* a location that answers 404
WalkGone == "https://x.test/sitemap-gone.xml"

\* the documents served: the root is an index; a is a urlset or an index;
\* b is a urlset or an index of at most one entry
WalkGraphs ==
    {(WalkRoot :> SitemapFile("sitemapindex", r)) @@ (WalkA :> a) @@ (WalkB :> b) :
        r \in SeqsUpTo({WalkA, WalkB, WalkGone}, MaxEntries) \ {<<>>},
        a \in {SitemapFile("urlset", <<"https://x.test/a">>)}
              \cup {SitemapFile("sitemapindex", l) : l \in SeqsUpTo({WalkA, WalkB, WalkRoot}, MaxEntries)},
        b \in {SitemapFile("urlset", <<"https://x.test/b">>)}
              \cup {SitemapFile("sitemapindex", l) : l \in {<<>>, <<WalkA>>, <<WalkB>>}}}

\* a walk that tries a failed child again
NextFramesRetry(files, stack, loc) ==
    IF loc \notin DOMAIN files THEN stack
    ELSE IF files[loc].kind = "sitemapindex"
    THEN <<files[loc].locs>> \o <<Tail(Head(stack))>> \o Tail(stack)
    ELSE <<Tail(Head(stack))>> \o Tail(stack)

\* lines 54-64 after fetchSitemap(sitemapLoc) was called for the next entry
\* of the innermost index: the entry is done with, and a child that is an
\* index starts its own loop
NextFrames(files, stack, loc) ==
    IF loc \in DOMAIN files /\ files[loc].kind = "sitemapindex"
    THEN <<files[loc].locs>> \o <<Tail(Head(stack))>> \o Tail(stack)
    ELSE <<Tail(Head(stack))>> \o Tail(stack)

WalkInit ==
    /\ cfg = [site |-> "sitemap", concurrency |-> 0, retryCount |-> 0, excludePatterns |-> <<>>]
    /\ pc = "helper"
    /\ now = 0
    /\ responseCache = <<>>
    /\ calls = <<>>
    /\ log = {}
    /\ discoveredLinks = EmptyMap
    /\ crawledUrls = {}
    /\ stats = InitStats
    /\ requests = <<>>
    /\ rendered = 0
    /\ batch = [list |-> <<>>, i |-> 1]
    /\ report = NoReport
    /\ sitemapFetched = FALSE
    /\ \E files \in WalkGraphs :
          probe = [fn |-> "fetchSitemap", files |-> files, stack |-> <<<<WalkRoot>>>>,
                   fetches |-> 0, urls |-> <<>>]

\* fetchSitemap(loc) is called for the next entry (line 58, or the call of
\* getSitemapUrls): the fetch of line 13 fails, or the document is a urlset
\* whose locations are returned, or an index whose loop starts
WalkFetch ==
    /\ probe.fn = "fetchSitemap"
    /\ probe.stack # <<>>
    /\ Head(probe.stack) # <<>>
    /\ probe.fetches < FetchCap
    /\ \E loc \in {Head(Head(probe.stack))} :
          probe' = [probe EXCEPT !.stack = NextFrames(probe.files, probe.stack, loc),
                                 !.fetches = @ + 1,
                                 !.urls = IF loc \in DOMAIN probe.files /\ probe.files[loc].kind = "urlset"
                                          THEN @ \o probe.files[loc].locs ELSE @]
    /\ UNCHANGED <<cfg, pc, now, responseCache, calls, log, discoveredLinks, crawledUrls, stats,
                   requests, rendered, batch, report, sitemapFetched>>

\* the loop of an index is through its entries: return allUrls (line 66)
WalkReturn ==
    /\ probe.fn = "fetchSitemap"
    /\ probe.stack # <<>>
    /\ Head(probe.stack) = <<>>
    /\ probe' = [probe EXCEPT !.stack = Tail(@)]
    /\ UNCHANGED <<cfg, pc, now, responseCache, calls, log, discoveredLinks, crawledUrls, stats,
                   requests, rendered, batch, report, sitemapFetched>>

WalkNext == WalkFetch \/ WalkReturn

\* every fetch returns or fails in finite time
SitemapSpec == WalkInit /\ [][WalkNext]_vars /\ WF_vars(WalkNext)

\* ------------------------------------------------------------------------
\* Properties
\* ------------------------------------------------------------------------

Keys(m) == SeqToSet(m.order)

StatusOf(m, k) == MapGet(m, k).status

Terminal == {"success", "error", "skipped"}

TransportTypes == {"Timeout", "DNS Error", "SSL Error", "Network Error"}

\* C1: the Frontier never holds two records whose URLs normalize to the
\* same canonical form
C1_OneRecordPerNormalizedUrl ==
    \A k1, k2 \in Keys(discoveredLinks) :
        Normalized[k1] = Normalized[k2] => k1 = k2

\* C2: a validateUrl call whose every existence check raised a transport
\* failure issued exactly retryCount + 1 checks before it returned its error
C2_RetryBound ==
    \A e \in log :
        (~e.success /\ e.n > 0 /\ e.error.type \in TransportTypes) => e.n = cfg.retryCount + 1

C2_Witness ==
    /\ cfg.retryCount = MaxRetryCount
    /\ \E e \in log : ~e.success /\ e.error.type \in TransportTypes /\ e.n = MaxRetryCount + 1

\* C3: during batch validation at most batchSize links are checking, every
\* link of an earlier window is terminal and no link of a later window has
\* started
C3_Windows ==
    /\ Cardinality({k \in Keys(discoveredLinks) : StatusOf(discoveredLinks, k) = "checking"}) <= batchSize
    /\ pc = "validating" =>
         \A j \in 1..Len(batch.list) :
            /\ j < batch.i - batchSize => StatusOf(discoveredLinks, batch.list[j]) \in Terminal
            /\ j >= batch.i => StatusOf(discoveredLinks, batch.list[j]) = "pending"
            /\ StatusOf(discoveredLinks, batch.list[j]) = "checking" => batch.list[j] \in DOMAIN calls

\* a full window of the default size is in flight, one member is backing
\* off before a retry, and a link of the next window waits
C3_Witness ==
    /\ pc = "validating"
    /\ cfg.concurrency = 0
    /\ Cardinality(DOMAIN calls) = DefaultConcurrency
    /\ \E u \in DOMAIN calls : calls[u].st = "backoff"
    /\ \E j \in 1..Len(batch.list) :
          j >= batch.i /\ StatusOf(discoveredLinks, batch.list[j]) = "pending"

SameUrlWithinTtl(a, b) ==
    /\ a.url = b.url
    /\ a.who = "start"
    /\ b.who = "batch"
    /\ b.t0 - a.t0 < cacheTTL

\* C4 as stated: two requests for one URL within the TTL window cause
\* exactly one existence check in total, and return the same outcome
C4_OneCheckInTotal ==
    \A a, b \in log :
        SameUrlWithinTtl(a, b) =>
            a.n + b.n = 1 /\ b.success = a.success /\ b.error = a.error

\* C4 as amended: the later request is answered from the cache without any
\* existence check and returns the outcome of the first, whose own checks
\* number between 1 and retryCount + 1
C4_LaterFromCache ==
    \A a, b \in log :
        SameUrlWithinTtl(a, b) =>
            /\ b.n = 0
            /\ b.success = a.success /\ b.error = a.error
            /\ a.n >= 1 /\ a.n <= cfg.retryCount + 1

C4_Witness ==
    \E a, b \in log : SameUrlWithinTtl(a, b) /\ a.n = MaxRetryCount + 1 /\ b.n = 0

\* C5 as stated: records are created pending, reach success or error only
\* from checking, and skipped only from pending
C5_Lifecycle ==
    [][\A k \in Keys(discoveredLinks') :
          IF k \notin Keys(discoveredLinks)
          THEN StatusOf(discoveredLinks', k) = "pending"
          ELSE StatusOf(discoveredLinks', k) # StatusOf(discoveredLinks, k) =>
                 /\ StatusOf(discoveredLinks', k) # "pending"
                 /\ StatusOf(discoveredLinks', k) = "checking" => StatusOf(discoveredLinks, k) = "pending"
                 /\ StatusOf(discoveredLinks', k) = "skipped" => StatusOf(discoveredLinks, k) = "pending"
                 /\ StatusOf(discoveredLinks', k) \in {"success", "error"} =>
                        StatusOf(discoveredLinks, k) = "checking"]_vars

\* C5 as amended: checking and skipped are reached only from pending and
\* only in batch validation, where success and error are reached only from
\* checking; during the crawl the page handler and the failed-request
\* handler write success or error directly, on a new record or over a
\* pending, success or error one; no record returns to pending
C5_LifecycleByWriter ==
    [][\A k \in Keys(discoveredLinks') :
          IF k \notin Keys(discoveredLinks)
          THEN \/ StatusOf(discoveredLinks', k) = "pending"
               \/ pc = "crawling" /\ StatusOf(discoveredLinks', k) \in {"success", "error"}
          ELSE StatusOf(discoveredLinks', k) # StatusOf(discoveredLinks, k) =>
                 /\ StatusOf(discoveredLinks', k) # "pending"
                 /\ StatusOf(discoveredLinks', k) \in {"checking", "skipped"} =>
                        pc = "validating" /\ StatusOf(discoveredLinks, k) = "pending"
                 /\ StatusOf(discoveredLinks', k) \in {"success", "error"} =>
                        \/ pc = "validating" /\ StatusOf(discoveredLinks, k) = "checking"
                        \/ pc = "crawling" /\ StatusOf(discoveredLinks, k) \in {"pending", "success", "error"}]_vars

\* batch validation has taken a link from pending through checking to
\* success, next to a record the page handler wrote during the crawl
C5_Witness ==
    /\ pc = "validating"
    /\ \E k \in Keys(discoveredLinks) :
          /\ StatusOf(discoveredLinks, k) = "success"
          /\ \E e \in log : e.who = "batch" /\ e.url = k /\ e.n >= 1
    /\ \E k \in Keys(discoveredLinks) :
          /\ "Direct navigation" \in MapGet(discoveredLinks, k).sourcePages
          /\ StatusOf(discoveredLinks, k) = "error"

\* C6: no step shrinks the source-page set of a record
C6_SourcesNeverShrink ==
    [][\A k \in Keys(discoveredLinks) \cap Keys(discoveredLinks') :
          MapGet(discoveredLinks, k).sourcePages \subseteq MapGet(discoveredLinks', k).sourcePages]_vars

\* C7: the start URL's validation ends in an error exactly when crawl()
\* fails, and then nothing was rendered, fetched, recorded, counted or
\* reported
C7_StartFailure ==
    /\ (\E e \in log : e.who = "start" /\ ~e.success) <=> pc = "failed"
    /\ pc = "failed" =>
         /\ rendered = 0
         /\ requests = <<>>
         /\ ~sitemapFetched
         /\ discoveredLinks = EmptyMap
         /\ stats = InitStats
         /\ ~report.returned

\* crawl() has failed on a transport failure that outlasted its retries
C7_Witness ==
    /\ pc = "failed"
    /\ \E e \in log : e.who = "start" /\ e.error.type = "Timeout" /\ e.n = MaxRetryCount + 1

\* C8: once the start URL has validated, crawl() eventually returns a report
C8_Completes == (pc = "sitemap") ~> (pc = "done" /\ report.returned)

\* a run has returned its report although a page request failed for good
\* (the failed-request handler's error is in the report), a rendered page
\* was never counted as crawled and a link validation ended in an error
C8_Witness ==
    /\ pc = "done"
    /\ report.returned
    /\ \E i \in 1..Len(report.errors) :
          /\ report.errors[i].sourcePages = {"Direct navigation"}
          /\ report.errors[i].type \in {"Network Error", "Timeout"}
    /\ rendered > report.stats.pagesCrawled
    /\ \E e \in log : e.who = "batch" /\ ~e.success

ScenarioErrors ==
    <<[type |-> "404 Not Found", url |-> "https://x.test/missing", statusCode |-> 404,
       sourcePages |-> {"https://x.test/"}]>>

C10_NonHtmlValidated ==
    \A k \in Keys(discoveredLinks) :
        (k \in NonHtml /\ k \notin Excluded[cfg.excludePatterns]) =>
            /\ StatusOf(discoveredLinks, k) # "skipped"
            /\ (pc = "validating" /\ WindowSettled /\ batch.i > Len(batch.list)) =>
                  /\ StatusOf(discoveredLinks, k) \in {"success", "error"}
                  /\ \E e \in log : e.who = "batch" /\ e.url = k

\* the backoff delays of the retries that follow k failed fetches
RECURSIVE BackoffTotal(_)
BackoffTotal(k) == IF k <= 0 THEN 0 ELSE BackoffTotal(k - 1) + Pow2(k - 1) * 1000

\* C11: a non-2xx HTTP response is the last response of its validateUrl
\* call: no call is fetching again or backing off after one, and the call
\* returns the error classified from that status having waited only for
\* the backoffs of the thrown fetches before it
C11_HttpNotRetried ==
    /\ \A u \in DOMAIN calls :
          \A i \in 1..Len(calls[u].seen) : calls[u].seen[i] = 0
    /\ \A e \in log :
          /\ \A i \in 1..(Len(e.seen) - 1) : e.seen[i] = 0
          /\ (e.seen # <<>> /\ e.seen[Len(e.seen)] >= 300) =>
                /\ ~e.success
                /\ e.error.statusCode = e.seen[Len(e.seen)]
                /\ e.error.type = HttpErrorType(e.seen[Len(e.seen)])
                /\ e.n = Len(e.seen)
                /\ e.waited = BackoffTotal(Len(e.seen) - 1)

\* an HTTP error arrived on the last attempt that retryCount allows, after
\* thrown fetches, and was returned
C11_Witness ==
    \E e \in log :
        /\ Len(e.seen) = MaxRetryCount + 1
        /\ e.seen[Len(e.seen)] = 404
        /\ e.error.type = "404 Not Found"

AddCalls == [url : AddUrls, sourcePage : AddSources]

\* the Frontier without the order of its keys
View(m) == [k \in Keys(m) |-> MapGet(m, k)]

AddCall(m, c) == addDiscoveredLink(m, c.url, c.sourcePage)

\* C12: on every Frontier, a repeated addDiscoveredLink call changes nothing
\* and two calls made in either order leave the same keys with the same
\* records (so every ordering of one multiset of calls does)
C12_AddIdempotentCommutative ==
    probe.fn = "addDiscoveredLink" =>
        \A c1, c2 \in AddCalls :
            /\ AddCall(AddCall(discoveredLinks, c1), c1) = AddCall(discoveredLinks, c1)
            /\ View(AddCall(AddCall(discoveredLinks, c1), c2))
                 = View(AddCall(AddCall(discoveredLinks, c2), c1))

\* a call has been repeated, on a Frontier where the order of two further
\* calls shows in the insertion order of the Map
C12_Witness ==
    /\ probe.fn = "addDiscoveredLink"
    /\ \E i, j \in 1..Len(probe.in) : i < j /\ probe.in[i] = probe.in[j]
    /\ \E c1, c2 \in AddCalls :
          AddCall(AddCall(discoveredLinks, c1), c2) # AddCall(AddCall(discoveredLinks, c2), c1)

\* C13: after addDiscoveredLink calls on an empty Frontier there is one
\* pending record per normalized URL of the calls, and its source set is
\* exactly the source pages of the calls whose URL normalizes to it
C13_SourcesAreTheCallers ==
    (probe.fn = "addDiscoveredLink" /\ probe.seed = EmptyMap) =>
        /\ Keys(discoveredLinks) = {Normalized[probe.in[i].url] : i \in 1..Len(probe.in)}
        /\ Len(discoveredLinks.order) = Cardinality(Keys(discoveredLinks))
        /\ \A k \in Keys(discoveredLinks) :
              /\ MapGet(discoveredLinks, k).sourcePages =
                    {probe.in[i].sourcePage : i \in {j \in 1..Len(probe.in) : Normalized[probe.in[j].url] = k}}
              /\ MapGet(discoveredLinks, k).status = "pending"
              /\ MapGet(discoveredLinks, k).url = k

\* two forms of one page, differing in host casing, query and trailing
\* slash, were added from two source pages: one record, two sources
C13_Witness ==
    /\ probe.fn = "addDiscoveredLink"
    /\ probe.seed = EmptyMap
    /\ probe.in = <<[url |-> "https://X.test/a?q=1", sourcePage |-> "https://x.test/"],
                    [url |-> "https://x.test/a/", sourcePage |-> "https://x.test/docs"]>>
    /\ Keys(discoveredLinks) = {"https://x.test/a"}
    /\ Cardinality(MapGet(discoveredLinks, "https://x.test/a").sourcePages) = 2

\* C14: the list ingestion returns for an index holds each URL of its
\* children exactly once
C14_IngestionNoDuplicates ==
    (probe.fn = "fetchSitemap" /\ probe.done) =>
        /\ SeqToSet(probe.urls) =
              UNION {SeqToSet(probe.files[c].locs) : c \in SeqToSet(ChildUrls) \cap DOMAIN probe.files}
        /\ Cardinality(SeqToSet(probe.urls)) = Len(probe.urls)

\* C15: an error the validator returns has no source pages yet; whenever a
\* step writes an error on a record, the record is in error status and the
\* error's source pages are the non-empty source set the record has at that
\* moment; the report's errors are the errors of the records, as written
C15_ErrorAttribution ==
    [][/\ \A e \in log' : e.error.sourcePages = {}
       /\ \A k \in Keys(discoveredLinks') :
             LET was == IF k \in Keys(discoveredLinks) THEN MapGet(discoveredLinks, k).error ELSE NoError
                 is  == MapGet(discoveredLinks', k)
             IN  (is.error # was) =>
                     /\ is.status = "error"
                     /\ is.error.sourcePages = is.sourcePages
                     /\ is.error.sourcePages # {}
       /\ (report'.returned /\ ~report.returned) =>
             /\ \A i \in 1..Len(report'.errors) : report'.errors[i].sourcePages # {}
             /\ SeqToSet(report'.errors) =
                   {MapGet(discoveredLinks, k).error : k \in Keys(discoveredLinks)} \ {NoError}]_vars

\* batch validation has attributed a validator's error to its record, and
\* another record has gained a source page since its error was written
C15_Witness ==
    /\ pc = "validating"
    /\ \E k \in Keys(discoveredLinks) :
          /\ MapGet(discoveredLinks, k).error # NoError
          /\ \E e \in log : e.who = "batch" /\ e.url = k /\ ~e.success /\ e.n >= 1
    /\ \E k \in Keys(discoveredLinks) :
          /\ MapGet(discoveredLinks, k).error # NoError
          /\ MapGet(discoveredLinks, k).error.sourcePages # MapGet(discoveredLinks, k).sourcePages

\* C16: when the run has ended, with a report or with the failure of crawl(),
\* the response cache is empty
C16_CacheClearedAtEnd ==
    pc \in {"done", "failed"} => responseCache = <<>>

CounterNames == {"pagesCrawled", "linksChecked", "brokenLinks", "skippedLinks", "seoChecked", "seoErrors"}

CheckNames == {"canonicalUrl", "metaDescription", "pageTitle", "openGraphTags"}

\* C18: no step of a run decreases pagesCrawled, linksChecked, brokenLinks,
\* skippedLinks or a checked, passed or failed counter of a metadata check
C18_CountersMonotonic ==
    [][/\ \A c \in CounterNames : stats'[c] >= stats[c]
       /\ \A k \in CheckNames :
             /\ stats'[k].checked >= stats[k].checked
             /\ stats'[k].passed >= stats[k].passed
             /\ stats'[k].failed >= stats[k].failed]_vars

\* the sitemap path has seeded the Frontier, reset pagesCrawled and counted
\* validated and skipped links without rendering a page
C18_Witness ==
    /\ UseSitemap(cfg.site)
    /\ pc = "validating"
    /\ rendered = 0
    /\ stats.pagesCrawled = 0
    /\ stats.linksChecked >= 1
    /\ stats.skippedLinks >= 1

\* a step in which the handler of a request has run its metadata checks
PageChecked ==
    \E u \in DOMAIN requests :
        /\ requests[u].st = "queued"
        /\ u \in DOMAIN requests'
        /\ requests'[u].st = "running"

\* C19: after every step each metadata check has checked = passed + failed
\* and checked = the number of pages checked; a step in which a page's
\* metadata is checked raises each checked counter and one of passed and
\* failed by one, whatever the outcome, and no other step changes them
C19_CheckCounters ==
    [][/\ \A k \in CheckNames :
             /\ stats'[k].checked = stats'[k].passed + stats'[k].failed
             /\ stats'[k].checked = stats'.seoChecked
             /\ stats'[k].checked = stats[k].checked + (IF PageChecked THEN 1 ELSE 0)
             /\ stats'[k].passed >= stats[k].passed
             /\ stats'[k].failed >= stats[k].failed
       /\ stats'.seoChecked = stats.seoChecked + (IF PageChecked THEN 1 ELSE 0)]_vars

\* two pages have been checked, a check passing on one and failing on the other
C19_Witness ==
    /\ stats.seoChecked >= 2
    /\ \E k \in CheckNames : stats[k].passed >= 1 /\ stats[k].failed >= 1

\* C20: a rendered page with at least one error (HTTP status, soft-404 or
\* metadata) raises brokenLinks by one and has its first error written on
\* its record, which is in error status; a rendered page with no error,
\* warnings or not, leaves brokenLinks and the record's error as they were
\* and is recorded as success
C20_BrokenIffErrorFired ==
    [][(probe'.fn = "requestHandler" /\ probe' # probe) =>
          LET last == probe'.in[Len(probe'.in)]
              was  == IF MapHas(discoveredLinks, last.url)
                      THEN MapGet(discoveredLinks, last.url).error ELSE NoError
              is   == MapGet(discoveredLinks', last.url)
          IN  IF Len(last.errors) > 0
              THEN /\ stats'.brokenLinks = stats.brokenLinks + 1
                   /\ is.status = "error"
                   /\ is.error = [last.errors[1] EXCEPT !.sourcePages = is.sourcePages]
              ELSE /\ stats'.brokenLinks = stats.brokenLinks
                   /\ is.status = "success"
                   /\ is.error = was]_vars

\* one page was rendered with several errors and another with warnings only:
\* brokenLinks is 1 and only the first has an error on its record
C20_Witness ==
    /\ probe.fn = "requestHandler"
    /\ Len(probe.in) = 2
    /\ probe.in[1].url # probe.in[2].url
    /\ Len(probe.in[1].errors) >= 2
    /\ probe.in[2].errors = <<>> /\ probe.in[2].warnings # <<>>
    /\ stats.brokenLinks = 1
    /\ stats.linksChecked = 2
    /\ MapGet(discoveredLinks, probe.in[1].url).error # NoError
    /\ MapGet(discoveredLinks, probe.in[2].url).error = NoError
    /\ StatusOf(discoveredLinks, probe.in[2].url) = "success"

\* a not-found phrase occurs in the case-folded text
HasNotFoundPhrase(text) ==
    \E i \in 1..Len(NotFoundPatterns) : Includes(ToLowerCase(text), NotFoundPatterns[i])

\* C21: a page with status 200 gets the soft-404 error (Not Found with
\* status code 200) exactly when a not-found phrase is in its title, or in
\* its body and the body is shorter than 200 characters; no other status
\* gets it; a 200 page titled "Page Not Found" is reported
C21_Soft404Rule ==
    (probe.fn = "PageValidator.run" /\ probe.done) =>
        LET soft == \E i \in 1..Len(probe.errors) :
                        probe.errors[i].type = "404 Not Found" /\ probe.errors[i].statusCode = 200
        IN  /\ soft <=> /\ probe.status = 200
                        /\ \/ HasNotFoundPhrase(probe.title)
                           \/ HasNotFoundPhrase(probe.bodyText) /\ Len(probe.bodyText) < 200
            /\ (probe.status = 200 /\ probe.title = "Page Not Found") => soft

\* a 200 page whose title is clean and whose 199-character body holds a
\* phrase is a soft 404
C21_Witness ==
    /\ probe.fn = "PageValidator.run" /\ probe.done
    /\ probe.status = 200
    /\ ~HasNotFoundPhrase(probe.title)
    /\ Len(probe.bodyText) = 199
    /\ Len(probe.errors) = 1
    /\ probe.errors[1].statusCode = 200

\* the findings of the given types
OfTypes(findings, types) == {i \in 1..Len(findings) : findings[i].type \in types}

\* C22: a non-empty description gets a length warning exactly when its
\* length is outside 50..160, a non-empty title exactly when its length is
\* outside 30..60, and neither gets an error
C22_LengthBands ==
    (probe.fn = "SEOValidator.run" /\ probe.done) =>
        /\ ~Blank(probe.metaDescription) =>
              /\ OfTypes(probe.errors, {"Missing Meta Description"}) = {}
              /\ OfTypes(probe.warnings, {"Short Meta Description", "Long Meta Description"}) # {}
                    <=> Len(probe.metaDescription) \notin 50..160
        /\ ~Blank(probe.title) =>
              /\ OfTypes(probe.errors, {"Missing Page Title"}) = {}
              /\ OfTypes(probe.warnings, {"Short Title", "Long Title"}) # {}
                    <=> Len(probe.title) \notin 30..60

\* C23: the process exits 1 exactly when crawl() returned a report with
\* errors and noFail is not set, 0 when the report has no errors or noFail
\* is set, and 2 when the configuration is invalid or the start URL is
\* unreachable
C23_ExitCode ==
    (probe.fn = "main" /\ probe.stage = "exited") =>
        /\ probe.exit = 1 <=> /\ probe.outcome.kind = "report"
                              /\ probe.outcome.errors > 0
                              /\ probe.config.noFail # Some(TRUE)
        /\ (probe.outcome.kind = "report" /\ (probe.outcome.errors = 0 \/ probe.config.noFail = Some(TRUE)))
              => probe.exit = 0
        /\ (probe.invalid # "" \/ StartsWith(probe.outcome.message, "Start URL is not accessible"))
              => probe.exit = 2

\* a run with --no-fail returned a report with errors and exited 0
C23_Witness ==
    /\ probe.fn = "main" /\ probe.stage = "exited"
    /\ probe.options.fail = Some(FALSE)
    /\ probe.outcome.kind = "report" /\ probe.outcome.errors > 0
    /\ probe.exit = 0

\* the conditions under which a configuration is invalid
InvalidConfig(config) ==
    \/ Falsy(config.url)
    \/ ~isValidUrl(config.url[1])
    \/ config.concurrency[1] \notin 1..100
    \/ config.timeout[1] \notin 1..600
    \/ config.retryCount[1] \notin 0..10
    \/ Falsy(config.replaceFrom) # Falsy(config.replaceTo)
    \/ ~Falsy(config.replaceFrom) /\ ~isValidUrl(config.replaceFrom[1])
    \/ ~Falsy(config.replaceTo) /\ ~isValidUrl(config.replaceTo[1])

\* C24: validateConfig rejects a configuration with a missing or malformed
\* url, a concurrency outside 1..100, a timeout outside 1..600, a retryCount
\* outside 0..10, one replacement URL without the other or a malformed
\* replacement URL, and then the process exits 2 with no crawler
\* constructed and no network activity; a crawler is only ever constructed
\* for a configuration that passed
C24_InvalidBeforeNetwork ==
    (probe.fn = "main" /\ probe.stage \notin {"start", "help"}) =>
        /\ probe.invalid # "" <=> InvalidConfig(probe.config)
        /\ probe.invalid # "" =>
              /\ ~probe.crawler
              /\ probe.network = 0
              /\ probe.outcome = NoOutcome
              /\ probe.stage = "exited" /\ probe.exit = 2
        /\ (probe.crawler \/ probe.network > 0) => ~InvalidConfig(probe.config)

\* a replaceFrom given without replaceTo ended the process before the crawl
C24_Witness ==
    /\ probe.fn = "main" /\ probe.stage = "exited"
    /\ probe.options.replaceFrom # Undefined /\ probe.options.replaceTo = Undefined
    /\ probe.invalid # ""
    /\ ~probe.crawler /\ probe.network = 0
    /\ probe.exit = 2

\* the value a field is to have: the command line's when the option was
\* given, else the file's when the file sets it, else the default
Expected(options, fileConfig, f) ==
    IF f = "noFail" /\ options.fail = Some(FALSE) THEN Some(TRUE)
    ELSE IF f # "noFail" /\ cliOptions(options)[f] # Undefined THEN cliOptions(options)[f]
    ELSE IF fileConfig # Undefined /\ Get(fileConfig[1], f) # Undefined THEN fileConfig[1][f]
    ELSE IF f = "url" THEN Some("")
    ELSE Get(getDefaultConfig, f)

\* C30: every field of the effective configuration has the command line's
\* value when the option was given, else the config file's value when the
\* file sets it, else the default
C30_Precedence ==
    (probe.fn = "main" /\ probe.stage \notin {"start", "help"}) =>
        \A f \in ConfigFields :
            Get(probe.config, f) = Expected(probe.options, probe.fileConfig, f)

\* C25: normalizing a normalized URL changes nothing
C25_NormalizeIdempotent ==
    (probe.fn = "normalizeUrl" /\ probe.done) => probe.twice = probe.once

\* C26: isSameDomain gives the same answer both ways round, and holds of a
\* valid URL with a non-empty host and itself
C26_SymmetricReflexive ==
    (probe.fn = "isSameDomain" /\ probe.done) =>
        /\ probe.ab = probe.ba
        /\ (isValidUrl(probe.a) /\ ParseUrl(probe.a).hostname # "") => probe.aa

\* s is pattern with each * replaced by some sequence of characters
RECURSIVE Instance(_, _)
Instance(pattern, s) ==
    IF FindFirst(pattern, 1, {"*"}) > Len(pattern) THEN pattern = s
    ELSE /\ StartsWith(s, SubSeq(pattern, 1, FindFirst(pattern, 1, {"*"}) - 1))
         /\ \E k \in FindFirst(pattern, 1, {"*"})..(Len(s) + 1) :
               Instance(SubSeq(pattern, FindFirst(pattern, 1, {"*"}) + 1, Len(pattern)),
                        SubSeq(s, k, Len(s)))

\* C27: a URL matches a pattern exactly when the whole path or the whole
\* URL is the pattern with each * replaced by some character sequence, all
\* other characters literal: /admin/* matches /admin/users and /admin/ and
\* not /administration
C27_AnchoredGlob ==
    (probe.fn = "matchesExcludePattern" /\ probe.done) =>
        /\ probe.matches <=> /\ isValidUrl(probe.url)
                             /\ \/ Instance(probe.pattern, ParseUrl(probe.url).pathname)
                                \/ Instance(probe.pattern, probe.url)
        /\ probe.pattern = "/admin/*" =>
              /\ probe.url \in {"https://x.test/admin/users", "https://x.test/admin/"} => probe.matches
              /\ probe.url = "https://x.test/administration" => ~probe.matches

\* /admin/* was tested against /administration and did not match
C27_Witness ==
    /\ probe.fn = "matchesExcludePattern" /\ probe.done
    /\ probe.pattern = "/admin/*"
    /\ probe.url = "https://x.test/administration"
    /\ ~probe.matches

\* the Frontier was seeded from the sitemap
Seeded(m) == \E k \in Keys(m) : "sitemap.xml" \in MapGet(m, k).sourcePages

\* the URLs the sitemap yields
IngestedUrls == UNION {SeqToSet(order) : order \in SitemapOrders[cfg.site]}

\* C28: once the sitemap has seeded the Frontier no page is rendered or
\* queued for rendering, pagesCrawled and the metadata counters stay 0 and
\* every URL of the sitemap has a record with source sitemap.xml; when the
\* report is returned every record has reached success, error or skipped
C28_SitemapBypassesRendering ==
    [][/\ Seeded(discoveredLinks') =>
             /\ rendered' = 0
             /\ requests' = <<>>
             /\ stats'.pagesCrawled = 0
             /\ stats'.seoChecked = 0 /\ stats'.seoErrors = 0
             /\ \A c \in CheckNames : stats'[c] = NoCounts
             /\ \A u \in IngestedUrls :
                   /\ MapHas(discoveredLinks', Normalized[u])
                   /\ "sitemap.xml" \in MapGet(discoveredLinks', Normalized[u]).sourcePages
       /\ (Seeded(discoveredLinks) /\ report'.returned /\ ~report.returned) =>
             /\ \A k \in Keys(discoveredLinks) :
                   StatusOf(discoveredLinks, k) \in {"success", "error", "skipped"}
             /\ report'.stats.pagesCrawled = 0
             /\ report'.stats.linksChecked + report'.stats.skippedLinks = Cardinality(Keys(discoveredLinks))]_vars

\* a sitemap run has returned its report: links were validated, one was
\* skipped, one is broken, and nothing was rendered
C28_Witness ==
    /\ UseSitemap(cfg.site)
    /\ report.returned
    /\ rendered = 0
    /\ report.stats.pagesCrawled = 0
    /\ report.stats.linksChecked >= 3
    /\ report.stats.skippedLinks >= 1
    /\ report.stats.brokenLinks >= 1

\* C29: a URL that an exclude pattern matches is never rendered, never
\* sent an existence check as a discovered link, has no error on its
\* record (so it is not counted in brokenLinks) and is in no error of the
\* report
C29_ExcludedUntouched ==
    \A u \in Excluded[cfg.excludePatterns] :
        /\ Normalized[u] \notin crawledUrls
        /\ ~\E e \in log : e.who = "batch" /\ e.url = u
        /\ MapHas(discoveredLinks, u) => MapGet(discoveredLinks, u).error = NoError
        /\ \A i \in 1..Len(report.errors) : report.errors[i].url # u

\* sitemap mode was asked for on the command line or in the config file
SitemapRequested(options, fileConfig) ==
    \/ options.useSitemap = Some(TRUE)
    \/ /\ options.useSitemap = Undefined
       /\ fileConfig # Undefined
       /\ Get(fileConfig[1], "useSitemap") = Some(TRUE)

\* C31: when useSitemap (and sitemapUrl) is set on the command line or in
\* the config file, the configuration the crawler is constructed with
\* carries useSitemap = true and the sitemapUrl given, so fetchSitemapUrls
\* does not return early
C31_SitemapModeTakesEffect ==
    (probe.fn = "main" /\ probe.stage \in {"configured", "crawled"}
        /\ SitemapRequested(probe.options, probe.fileConfig)) =>
        /\ Get(probe.config, "useSitemap") = Some(TRUE)
        /\ probe.options.sitemapUrl # Undefined =>
              Get(probe.config, "sitemapUrl") = probe.options.sitemapUrl

\* the URLs whose base domain is not the start URL's
ExternalUrls == [site \in Sites |-> {u \in Urls : getBaseDomain(u) # getBaseDomain(StartUrl(site))}]

External(u) == u \in ExternalUrls[cfg.site]

\* validateRemainingLinks is through with every window
BatchOver == pc = "validating" /\ WindowSettled /\ batch.i > Len(batch.list)

\* an existence check was made for the link in batch validation
BatchChecked(k) == \E e \in log : e.who = "batch" /\ e.url = k /\ e.n >= 1

\* no page request, rendered page or source page is of another domain, and
\* the links of a page that is a source are in the Frontier
ExternalNeverRendered ==
    /\ \A u \in DOMAIN requests : ~External(u)
    /\ \A u \in crawledUrls : ~External(u)
    /\ \A k \in Keys(discoveredLinks) :
          \A p \in MapGet(discoveredLinks, k).sourcePages \cap Urls :
             /\ ~External(p)
             /\ \A i \in 1..Len(PageLinks[cfg.site][p]) :
                   MapHas(discoveredLinks, Normalized[PageLinks[cfg.site][p][i]])

C33_TerminalAbsorbing ==
    [][report'.returned \/
       \A k \in Keys(discoveredLinks) :
          StatusOf(discoveredLinks, k) \in Terminal =>
             /\ MapHas(discoveredLinks', k)
             /\ StatusOf(discoveredLinks', k) = StatusOf(discoveredLinks, k)
             /\ MapGet(discoveredLinks', k).error = MapGet(discoveredLinks, k).error]_vars

\* the cache holds a transport fault for the URL
FaultCached(u) ==
    u \in DOMAIN responseCache /\ responseCache[u].error.type \in TransportTypes

\* C34: the cache holds a Timeout, DNS, SSL or Network entry for a URL only
\* when a validation of it has made retryCount + 1 existence checks in a
\* row that all failed in transport; while a validation is between
\* attempts, nothing has been written to the cache for its URL since it began
C34_FaultCachedAfterRetries ==
    /\ \A u \in DOMAIN responseCache :
          FaultCached(u) =>
             \E e \in log : /\ e.url = u
                            /\ ~e.success
                            /\ Len(e.seen) = cfg.retryCount + 1
                            /\ \A i \in 1..Len(e.seen) : e.seen[i] = 0
    /\ \A u \in DOMAIN calls :
          (calls[u].st \in {"backoff", "fetch"} /\ calls[u].seen # <<>>) =>
             /\ Len(calls[u].seen) <= cfg.retryCount
             /\ u \in DOMAIN responseCache => responseCache[u].timestamp < calls[u].t0

\* with retries configured, a link's checks all timed out and the fault is
\* in the cache
C34_Witness ==
    /\ cfg.retryCount >= 1
    /\ \E u \in DOMAIN responseCache :
          /\ FaultCached(u)
          /\ responseCache[u].error.type = "Timeout"
          /\ \E e \in log : e.url = u /\ e.who = "batch" /\ Len(e.seen) = cfg.retryCount + 1

\* C35: the first fetch of a validation is made at once; the fetch after
\* failed attempt k (k from 0) is made 2^k seconds after it; the call
\* returns with its last response without a further wait, so a validation
\* that uses up retryCount retries has waited 2^retryCount - 1 seconds
C35_BackoffSchedule ==
    probe.fn = "validateUrl" =>
        /\ probe.fetchAt[1] = 0
        /\ \A k \in 0..(Len(probe.fetchAt) - 2) :
              probe.fetchAt[k + 2] - probe.fetchAt[k + 1] = (2 ^ k) * 1000
        /\ probe.st = "returned" =>
              /\ probe.returnedAt = probe.fetchAt[Len(probe.fetchAt)]
              /\ (~probe.result.success /\ probe.result.error.type \in TransportTypes) =>
                    /\ Len(probe.fetchAt) = probe.retryCount + 1
                    /\ probe.returnedAt = (2 ^ probe.retryCount - 1) * 1000

\* a validation with three retries failed on all four fetches, having
\* waited 1, 2 and 4 seconds
C35_Witness ==
    /\ probe.fn = "validateUrl"
    /\ probe.st = "returned"
    /\ probe.retryCount = 3
    /\ probe.fetchAt = <<0, 1000, 3000, 7000>>
    /\ probe.returnedAt = 7000
    /\ probe.result.error.type = "Timeout"

\* the outcome the responses to a call's own existence checks determine
OwnOutcome(seen) ==
    IF seen[Len(seen)] >= 200 /\ seen[Len(seen)] <= 299 THEN "success" ELSE "error"

\* the place of a link's window in batch validation
WindowOf(k) ==
    ((CHOOSE i \in 1..Len(batch.list) : batch.list[i] = k) - 1) \div batchSize

\* C36: in batch validation a member that is checking has its call in
\* flight whatever its siblings have met, and the status and error of a
\* member that has returned are those its own responses determine: success
\* for a 2xx last response, else the error classified from that response
C36_MembersIsolated ==
    pc = "validating" =>
        /\ \A k \in Keys(discoveredLinks) :
              StatusOf(discoveredLinks, k) = "checking" <=> k \in DOMAIN calls
        /\ \A e \in log :
              (e.who = "batch" /\ e.n >= 1) =>
                 /\ e.n = Len(e.seen)
                 /\ StatusOf(discoveredLinks, e.url) = OwnOutcome(e.seen)
                 /\ e.success <=> OwnOutcome(e.seen) = "success"
                 /\ ~e.success =>
                       /\ MapGet(discoveredLinks, e.url).error.url = e.url
                       /\ MapGet(discoveredLinks, e.url).error.type =
                             IF e.seen[Len(e.seen)] = 0 THEN "Timeout"
                             ELSE HttpErrorType(e.seen[Len(e.seen)])

\* two members of one window: one timed out on every attempt of its retry
\* sequence, the other was answered 200 and is success
C36_Witness ==
    /\ pc = "validating"
    /\ batchSize >= 2
    /\ \E e1, e2 \in log :
          /\ e1.who = "batch" /\ e2.who = "batch"
          /\ e1.url # e2.url
          /\ WindowOf(e1.url) = WindowOf(e2.url)
          /\ ~e1.success /\ e1.error.type = "Timeout" /\ Len(e1.seen) >= 2
          /\ e2.success /\ e2.seen = <<200>>
          /\ StatusOf(discoveredLinks, e1.url) = "error"
          /\ StatusOf(discoveredLinks, e2.url) = "success"

\* the sitemaps an index of the graph lists
WalkRefs(files, n) ==
    IF files[n].kind = "sitemapindex" THEN SeqToSet(files[n].locs) \cap DOMAIN files ELSE {}

\* the documents reached from n along one or more references
WalkReach(files, n) ==
    LET one == WalkRefs(files, n)
        two == one \cup UNION {WalkRefs(files, m) : m \in one}
    IN  two \cup UNION {WalkRefs(files, m) : m \in two}

\* no index references itself, directly or through other indexes
Acyclic(files) == \A n \in DOMAIN files : n \notin WalkReach(files, n)

\* the index entries reached from a document, itself counted as one
RECURSIVE EntriesReached(_, _)
EntriesReached(files, loc) ==
    IF loc \notin DOMAIN files \/ files[loc].kind # "sitemapindex" THEN 1
    ELSE LET RECURSIVE Sum(_)
             Sum(locs) == IF locs = <<>> THEN 0
                          ELSE EntriesReached(files, Head(locs)) + Sum(Tail(locs))
         IN  1 + Sum(files[loc].locs)

WalkDone == probe.stack = <<>>

\* C37: over an index graph in which no index references itself directly
\* or transitively, fetchSitemap returns, having made one fetch for each
\* index entry it reached and one for the sitemap it was called with
C37_SitemapTerminates ==
    /\ Acyclic(probe.files) ~> WalkDone
    /\ []((Acyclic(probe.files) /\ WalkDone) =>
             /\ probe.fetches = EntriesReached(probe.files, WalkRoot)
             /\ probe.urls = fetchSitemap(probe.files, WalkRoot).urls)

\* the walk of an index of two indexes, one of them listed by the other,
\* and of a child that fails to load, has returned after its fetches
C37_Witness ==
    /\ WalkDone
    /\ Acyclic(probe.files)
    /\ probe.files[WalkA].kind = "sitemapindex"
    /\ WalkB \in WalkRefs(probe.files, WalkA)
    /\ WalkGone \in SeqToSet(probe.files[WalkRoot].locs)
    /\ probe.fetches >= 4

\* C38: when validateRemainingLinks is over and the report is put
\* together, no call is in flight and every record of the Frontier is
\* success, error or skipped; the report is built from such a Frontier
C38_NothingPendingAtReport ==
    /\ BatchOver =>
          /\ calls = <<>>
          /\ \A k \in Keys(discoveredLinks) : StatusOf(discoveredLinks, k) \in Terminal
    /\ report.returned => pc = "done"

\* the report is due in a run where the page handler of a queued link
\* threw after the link was marked crawled, so that the link stayed pending
\* and batch validation checked it; another link was skipped
C38_Witness ==
    /\ BatchOver
    /\ "https://x.test/a" \in crawledUrls
    /\ BatchChecked("https://x.test/a")
    /\ \E k \in Keys(discoveredLinks) : StatusOf(discoveredLinks, k) = "skipped"
    /\ \A k \in Keys(discoveredLinks) : StatusOf(discoveredLinks, k) \in Terminal

\* C39: the report lists as many errors as its brokenLinks counter says
C39_ErrorsMatchCounter ==
    report.returned => Len(report.errors) = report.stats.brokenLinks

\* C40: when the report is put together, the error of every broken record
\* lists each page the record names as a source of the URL
C40_CompleteAttribution ==
    BatchOver =>
        \A k \in Keys(discoveredLinks) :
            MapGet(discoveredLinks, k).error # NoError =>
                MapGet(discoveredLinks, k).sourcePages \subseteq MapGet(discoveredLinks, k).error.sourcePages

====
